---- MODULE Spec2Model ----
(***************************************************************************)
(* CureHelp+ conversational query resolver (chatbot.py), its chat form     *)
(* and the profile store (profile_manager.py).                             *)
(*                                                                         *)
(* A Python str is modelled as a sequence of characters, each character a  *)
(* one-character TLA+ string; the dotless i (U+0131) is the character      *)
(* "U+0131".  str.lower, str.upper, str.strip, str.split, the "in"         *)
(* substring test and re.search over the literal alternations of the       *)
(* source are computed character by character.                             *)
(***************************************************************************)
EXTENDS Integers, Sequences, FiniteSets, TLC

VARIABLES
  precautions_df, symptoms_df, faq_df, augmented_df,  \* the reference tables
  user_input,     \* the text submitted
  pc,             \* received, classified, compared, assembled
  input_type,     \* classify_input_type(user_input)
  upper_type,     \* classify_input_type(user_input.upper())
  symptoms_list,  \* the symptom list parsed from user_input
  prediction,     \* what predict_disease_from_symptoms returned
  response,       \* the response of process_user_input
  chatbot_history,     \* st.session_state.chatbot_history
  profiles_file,       \* the profile list held by user_profiles.json
  user_profiles,       \* st.session_state.user_profiles of each session
  current_profile,     \* st.session_state.current_profile of each session
  current_profile_id,  \* st.session_state.current_profile_id of each session
  session_pc,          \* where each session is: idle, or before the
                       \* save_profiles call of add_save, auto_save, manual_save
  last_save_time,      \* profile_manager._last_save_time
  clock                \* time.time()

\* the state of process_user_input and of classify_input_type
query_vars == <<precautions_df, symptoms_df, faq_df, augmented_df, user_input, pc,
                input_type, upper_type, symptoms_list, prediction, response>>

\* the state of the profile store: the file, the sessions, the manager
profile_vars == <<profiles_file, user_profiles, current_profile, current_profile_id,
                  session_pc, last_save_time, clock>>

\* the state of the Streamlit sessions
session_vars == <<chatbot_history, profile_vars>>

vars == <<query_vars, session_vars>>

(***************************************************************************)
(* Bounds of the model.                                                    *)
(***************************************************************************)
\* the longest input, in chunks of the input vocabulary
MaxChunks == 3
\* the most rows of the augmented symptom matrix
MaxRows == 2
\* the most rows of the FAQ table
MaxFaqRows == 3

(***************************************************************************)
(* Python str operations.                                                  *)
(***************************************************************************)
LowerLetters ==
  <<"a", "b", "c", "d", "e", "f", "g", "h", "i", "j", "k", "l", "m",
    "n", "o", "p", "q", "r", "s", "t", "u", "v", "w", "x", "y", "z">>

UpperLetters ==
  <<"A", "B", "C", "D", "E", "F", "G", "H", "I", "J", "K", "L", "M",
    "N", "O", "P", "Q", "R", "S", "T", "U", "V", "W", "X", "Y", "Z">>

\* the whitespace str.strip() and str.split() cut at
Whitespace == {" ", "\t", "\n"}

\* characters of the ASCII range that occur in the model
AsciiChars ==
  {LowerLetters[i] : i \in 1..26} \cup {UpperLetters[i] : i \in 1..26}
    \cup Whitespace \cup {",", "?", "_", ".", "(", ")"}

\* U+0131 LATIN SMALL LETTER DOTLESS I: lowercase, and its uppercase is "I"
Alphabet == AsciiChars \cup {"U+0131"}

\* str.lower() on one character
LowerChar ==
  [c \in Alphabet |->
     IF \E i \in 1..26 : UpperLetters[i] = c
     THEN LowerLetters[CHOOSE i \in 1..26 : UpperLetters[i] = c]
     ELSE c]

\* str.upper() on one character
UpperChar ==
  [c \in Alphabet |->
     IF \E i \in 1..26 : LowerLetters[i] = c
     THEN UpperLetters[CHOOSE i \in 1..26 : LowerLetters[i] = c]
     ELSE IF c = "U+0131" THEN "I" ELSE c]

\* s.lower()
str_lower(s) == [i \in 1..Len(s) |-> LowerChar[s[i]]]

\* s.upper()
str_upper(s) == [i \in 1..Len(s) |-> UpperChar[s[i]]]

\* s.strip()
str_strip(s) ==
  LET keep == {i \in 1..Len(s) : s[i] \notin Whitespace}
  IN  IF keep = {} THEN <<>>
      ELSE SubSeq(s, CHOOSE i \in keep : \A j \in keep : i <= j,
                     CHOOSE i \in keep : \A j \in keep : j <= i)

\* len(s.split()): the number of maximal runs of non-whitespace characters
word_count(s) ==
  Cardinality({i \in 1..Len(s) :
                 /\ s[i] \notin Whitespace
                 /\ (i = 1 \/ s[i - 1] \in Whitespace)})

\* c in s, for a character c
has_char(s, c) == \E i \in 1..Len(s) : s[i] = c

\* p in s, for a string p: p occurs in s as a substring
contains(s, p) ==
  \E i \in 1..(Len(s) - Len(p) + 1) : \A j \in 1..Len(p) : s[i + j - 1] = p[j]

\* s.startswith(p)
starts_with(s, p) == Len(p) <= Len(s) /\ \A j \in 1..Len(p) : s[j] = p[j]

\* s.split(sep) for a one-character separator: the pieces between the
\* separators, empty pieces included
RECURSIVE str_split(_, _)
str_split(s, sep) ==
  IF ~has_char(s, sep) THEN <<s>>
  ELSE LET i == CHOOSE k \in 1..Len(s) :
                   s[k] = sep /\ \A m \in 1..(k - 1) : s[m] # sep
       IN  <<SubSeq(s, 1, i - 1)>> \o str_split(SubSeq(s, i + 1, Len(s)), sep)

\* A regular expression of the source is a sequence of groups, each a set of
\* literal alternatives: r'what (are|is)' is << {"what "}, {"are", "is"} >>,
\* an optional group '(the )?' is {"the ", ""}.  re_compile gives the
\* strings the expression matches.
RECURSIVE re_compile(_)
re_compile(groups) ==
  IF groups = <<>> THEN {<<>>}
  ELSE {a \o r : a \in Head(groups), r \in re_compile(Tail(groups))}

\* re.search(pattern, s): some string the pattern matches occurs in s
re_search(regex, s) == \E lit \in regex : contains(s, lit)

(***************************************************************************)
(* classify_input_type                                                     *)
(***************************************************************************)
question_patterns ==
  <<
     << {<<"w", "h", "a", "t", " ">>},
        {<<"a", "r", "e">>, <<"i", "s">>} >>,
     << {<<"h", "o", "w", " ">>},
        {<<"t", "o">>, <<"d", "o">>, <<"c", "a", "n">>} >>,
     << {<<"w", "h", "y", " ">>},
        {<<"i", "s">>, <<"a", "r", "e">>} >>,
     << {<<"w", "h", "e", "n", " ">>},
        {<<"s", "h", "o", "u", "l", "d">>, <<"d", "o">>} >>,
     << {<<"w", "h", "e", "r", "e", " ">>},
        {<<"c", "a", "n">>, <<"d", "o">>} >>,
     << {<<"w", "h", "o", " ">>},
        {<<"s", "h", "o", "u", "l", "d">>, <<"c", "a", "n">>} >>,
     << {<<"c", "a", "n", " ", "y", "o", "u">>} >>,
     << {<<"c", "o", "u", "l", "d", " ", "y", "o", "u">>} >>,
     << {<<"w", "o", "u", "l", "d", " ", "y", "o", "u">>} >>,
     << {<<"e", "x", "p", "l", "a", "i", "n">>} >>,
     << {<<"t", "e", "l", "l", " ", "m", "e", " ", "a", "b", "o", "u", "t">>} >>
  >>

question_regexes ==
  [k \in 1..Len(question_patterns) |-> re_compile(question_patterns[k])]

\* user_input_lower = user_input.lower().strip()
user_input_lower_NoLower(u) == str_strip(u)

user_input_lower(u) == str_strip(str_lower(u))

\* is_question = any(re.search(pattern, user_input_lower) ...)
is_question(u) ==
  \E k \in 1..Len(question_patterns) :
     re_search(question_regexes[k], user_input_lower(u))

\* has_question_mark = '?' in user_input
has_question_mark_AtEnd(u) == Len(u) > 0 /\ u[Len(u)] = "?"

has_question_mark(u) == has_char(u, "?")

\* has_commas = ',' in user_input
has_commas(u) == has_char(u, ",")

\* is_short_phrase = len(user_input.split()) <= 5 and not is_question
is_short_phrase_Under5(u) == word_count(u) < 5 /\ ~is_question(u)

is_short_phrase(u) == word_count(u) <= 5 /\ ~is_question(u)

\* not is_question and len(user_input.split()) <= 3
is_disease_name_Under3(u) == ~is_question(u) /\ word_count(u) < 3

is_disease_name(u) == ~is_question(u) /\ word_count(u) <= 3

classify_input_type(u) ==
  IF u = <<>> THEN "question"
  ELSE IF has_question_mark(u) \/ is_question(u) THEN "question"
  ELSE IF has_commas(u) /\ is_short_phrase(u) THEN "symptoms"
  ELSE IF is_disease_name(u) THEN "disease"
  ELSE "question"

(***************************************************************************)
(* Optional values and numbers.                                            *)
(***************************************************************************)
\* Python None, and a value that is not None
None == <<>>
Some(x) == <<x>>

RECURSIVE gcd(_, _)
gcd(a, b) == IF b = 0 THEN a ELSE gcd(b, a % b)

\* A score x >= 0 is kept as the fraction x * x in lowest terms, so that a
\* cosine dot / sqrt(qn * rn) is the exact fraction (dot * dot) / (qn * rn).
\* rounding is 1 when the exact value is 1 and the float64 that the code
\* holds is above 1.0, and 0 otherwise.
Sq(n, d) ==
  LET g == gcd(n, d) IN [sq_num |-> n \div g, sq_den |-> d \div g, rounding |-> 0]

\* the exact value of a score
exact_value(x) == [x EXCEPT !.rounding = 0]

\* x < y for two scores
score_less(x, y) == x.sq_num * y.sq_den < y.sq_num * x.sq_den

\* the confidence 0 of a fresh response and the fixed confidence 0.95
confidence_0 == Sq(0, 1)
confidence_095 == Sq(19 * 19, 20 * 20)

\* the indices, in order, at which the sequence of booleans keep is TRUE
FilterIndices(keep) ==
  LET F[i \in 0..Len(keep)] ==
        IF i = 0 THEN <<>>
        ELSE IF keep[i] THEN Append(F[i - 1], i) ELSE F[i - 1]
  IN  F[Len(keep)]

\* s.replace(a, b) for characters a and b
str_replace(s, a, b) == [i \in 1..Len(s) |-> IF s[i] = a THEN b ELSE s[i]]

\* s.split(): the maximal runs of non-whitespace characters, as
\* <<first, last>> index pairs in order
word_spans(s) ==
  LET starts == {i \in 1..Len(s) :
                   s[i] \notin Whitespace /\ (i = 1 \/ s[i - 1] \in Whitespace)}
      last(i) == CHOOSE j \in i..Len(s) :
                   /\ \A m \in i..j : s[m] \notin Whitespace
                   /\ (j = Len(s) \/ s[j + 1] \in Whitespace)
  IN  {<<i, last(i)>> : i \in starts}

\* set(s.split())
word_set(s) == {SubSeq(s, sp[1], sp[2]) : sp \in word_spans(s)}

(***************************************************************************)
(* The reference tables.  A DataFrame that failed to load (None) is        *)
(* NoTable; a loaded one holds its rows; clean tells whether               *)
(* preprocess_datasets added the normalized-name column.                   *)
(***************************************************************************)
NoTable == [loaded |-> FALSE, clean |-> FALSE, columns |-> <<>>, rows |-> <<>>]

\* df['Disease'].str.lower().str.strip()
clean_name(name) == str_strip(str_lower(name))

\* preprocess_datasets on a table whose name column is the field `key`:
\* adds the normalized-name column
add_clean_column(df, key, key_clean) ==
  IF ~df.loaded THEN df
  ELSE [df EXCEPT !.clean = TRUE,
                  !.rows = [i \in 1..Len(df.rows) |->
                              [df.rows[i] EXCEPT ![key_clean] =
                                                   clean_name(df.rows[i][key])]]]

preprocess_datasets(precautions, symptoms, faq, augmented) ==
  [precautions_df |-> add_clean_column(precautions, "Disease", "Disease_clean"),
   symptoms_df    |-> add_clean_column(symptoms, "Disease", "Disease_clean"),
   faq_df         |-> add_clean_column(faq, "question", "question_clean"),
   augmented_df   |-> add_clean_column(augmented, "diseases", "diseases_clean")]

\* render_chatbot_tab: load_datasets(), then preprocess_datasets() only when
\* precautions_df is not None
loaded_datasets(precautions, symptoms, faq, augmented) ==
  IF precautions.loaded
  THEN preprocess_datasets(precautions, symptoms, faq, augmented)
  ELSE [precautions_df |-> precautions, symptoms_df |-> symptoms,
        faq_df |-> faq, augmented_df |-> augmented]

(***************************************************************************)
(* predict_disease_from_symptoms                                           *)
(***************************************************************************)
\* symptom_clean = symptom.lower().strip().replace(' ', '_')
symptom_clean(symptom) == str_replace(str_strip(str_lower(symptom)), " ", "_")

\* the query vector: 1 at the column of every recognized symptom
query_vector(symptoms, symptom_columns) ==
  [i \in 1..Len(symptom_columns) |->
     IF \E k \in 1..Len(symptoms) :
          symptom_clean(symptoms[k]) = symptom_columns[i]
     THEN 1 ELSE 0]

RECURSIVE dot_product(_, _)
dot_product(x, y) ==
  IF x = <<>> THEN 0 ELSE Head(x) * Head(y) + dot_product(Tail(x), Tail(y))

\* sklearn cosine_similarity of two 0/1 vectors: both are normalized (a zero
\* vector is left as it is) and multiplied
cosine_Overlap(x, y) == Sq(dot_product(x, y) * dot_product(x, y), 1)

\* cosine_similarity in float64 on two identical 0/1 vectors with n cells
\* set: every cell becomes fl(1 / fl(sqrt(n))) and the n products are added.
\* n = 1, 4: 1.0; n = 2, 5: at most 1.0; n = 3: fl(1 / sqrt(3)) is
\* 0.5773502691896258, its square is 0.33333333333333337 and three of them
\* add to 1.0000000000000002, in whatever order they are added.
identical_rounding == <<0, 0, 1, 0, 0>>

cosine(x, y) ==
  IF dot_product(x, x) = 0 \/ dot_product(y, y) = 0 THEN Sq(0, 1)
  ELSE IF x = y
  THEN [Sq(1, 1) EXCEPT !.rounding = identical_rounding[dot_product(x, x)]]
  ELSE Sq(dot_product(x, y) * dot_product(x, y),
          dot_product(x, x) * dot_product(y, y))

cosine_similarity(query, disease_matrix) ==
  [i \in 1..Len(disease_matrix) |-> cosine(query, disease_matrix[i])]

\* np.argmax: the first index of a maximal element
argmax_Last(scores) ==
  CHOOSE i \in 1..Len(scores) :
    /\ \A j \in 1..Len(scores) : ~score_less(scores[i], scores[j])
    /\ \A j \in (i + 1)..Len(scores) : score_less(scores[j], scores[i])

argmax(scores) ==
  CHOOSE i \in 1..Len(scores) :
    /\ \A j \in 1..Len(scores) : ~score_less(scores[i], scores[j])
    /\ \A j \in 1..(i - 1) : score_less(scores[j], scores[i])

\* None when the matrix is None; None too when it has no rows
\* (cosine_similarity raises on an empty matrix and the except returns None)
predict_disease_from_symptoms(symptoms, augmented) ==
  IF ~augmented.loaded \/ augmented.rows = <<>> THEN None
  ELSE LET query == query_vector(symptoms, augmented.columns)
           disease_matrix == [i \in 1..Len(augmented.rows) |-> augmented.rows[i].vec]
           similarities_scores == cosine_similarity(query, disease_matrix)
           best_idx == argmax(similarities_scores)
       IN  Some([best_disease |-> augmented.rows[best_idx].diseases,
                 best_score   |-> similarities_scores[best_idx],
                 best_vector  |-> disease_matrix[best_idx]])

(***************************************************************************)
(* The aggregator lookups.                                                 *)
(***************************************************************************)
\* the rows of df whose normalized name (field key_clean) equals name
matching_rows(df, key_clean, name) ==
  LET Test(r) == r[key_clean] = name IN SelectSeq(df.rows, Test)

\* the slots kept without the test against 'nan'
kept_slots_KeepsNan(slots) ==
  LET Test(v) == str_strip(v) # <<>>
      idx == FilterIndices([i \in 1..Len(slots) |-> Test(slots[i])])
  IN  [k \in 1..Len(idx) |-> str_strip(slots[idx[k]])]

\* the values of the slots that are kept: stripped, in slot order, without
\* the empty ones and without 'nan'
kept_slots(slots) ==
  LET Test(v) == str_strip(v) # <<>> /\ str_strip(v) # <<"n", "a", "n">>
      idx == FilterIndices([i \in 1..Len(slots) |-> Test(slots[i])])
  IN  [k \in 1..Len(idx) |-> str_strip(slots[idx[k]])]

\* get_disease_symptoms consulting the symptom catalogue before the matrix
get_disease_symptoms_CatalogueFirst(disease_name, symptoms, augmented) ==
  IF disease_name = <<>> THEN <<>>
  ELSE
    LET disease_clean == clean_name(disease_name)
        aug_match == IF augmented.loaded /\ augmented.clean
                     THEN matching_rows(augmented, "diseases_clean", disease_clean)
                     ELSE <<>>
        from_matrix ==
          IF aug_match = <<>> THEN <<>>
          ELSE LET idx == FilterIndices([i \in 1..Len(aug_match[1].vec) |->
                                         aug_match[1].vec[i] = 1])
               IN  [k \in 1..Len(idx) |->
                      str_replace(augmented.columns[idx[k]], "_", " ")]
        symptom_match == IF symptoms.loaded /\ symptoms.clean
                         THEN matching_rows(symptoms, "Disease_clean", disease_clean)
                         ELSE <<>>
        from_catalogue == IF symptom_match = <<>> THEN <<>>
                          ELSE kept_slots(symptom_match[1].slots)
    IN  IF from_catalogue # <<>> THEN from_catalogue ELSE from_matrix

get_disease_symptoms(disease_name, symptoms, augmented) ==
  IF disease_name = <<>> THEN <<>>
  ELSE
    LET disease_clean == clean_name(disease_name)
        aug_match == IF augmented.loaded /\ augmented.clean
                     THEN matching_rows(augmented, "diseases_clean", disease_clean)
                     ELSE <<>>
        Set(cell) == cell = 1
        from_matrix ==
          IF aug_match = <<>> THEN <<>>
          ELSE LET idx == FilterIndices([i \in 1..Len(aug_match[1].vec) |->
                                         Set(aug_match[1].vec[i])])
               IN  [k \in 1..Len(idx) |->
                      str_replace(augmented.columns[idx[k]], "_", " ")]
        symptom_match == IF symptoms.loaded /\ symptoms.clean
                         THEN matching_rows(symptoms, "Disease_clean", disease_clean)
                         ELSE <<>>
    IN  IF from_matrix # <<>> THEN from_matrix
        ELSE IF symptom_match = <<>> THEN <<>>
        ELSE kept_slots(symptom_match[1].slots)

\* get_disease_precautions answering with a stock precaution when the
\* precaution table is absent
get_disease_precautions_Stock(disease_name, precautions) ==
  IF disease_name = <<>> THEN <<>>
  ELSE IF ~precautions.loaded THEN << <<"c", "o", "n", "s", "u", "l", "t", " ", "a", " ", "d", "o", "c", "t", "o", "r">> >>
  ELSE
    LET disease_clean == clean_name(disease_name)
        prec_match == IF precautions.clean
                      THEN matching_rows(precautions, "Disease_clean", disease_clean)
                      ELSE <<>>
    IN  IF prec_match = <<>> THEN <<>> ELSE kept_slots(prec_match[1].slots)

get_disease_precautions(disease_name, precautions) ==
  IF ~precautions.loaded \/ disease_name = <<>> THEN <<>>
  ELSE
    LET disease_clean == clean_name(disease_name)
        prec_match == IF precautions.clean
                      THEN matching_rows(precautions, "Disease_clean", disease_clean)
                      ELSE <<>>
    IN  IF prec_match = <<>> THEN <<>> ELSE kept_slots(prec_match[1].slots)

\* Series.str.contains(pat) searches the regular expression pat.  The names
\* of the model are made of letters, digits, spaces, '.', '(' and ')': a '.'
\* matches any character but a newline, a group matches what its content
\* matches, any other character matches itself, and a pattern whose
\* parentheses are not balanced does not compile (re.error).
paren_depth(pat) ==
  LET D[i \in 0..Len(pat)] ==
        IF i = 0 THEN 0
        ELSE IF pat[i] = "(" THEN D[i - 1] + 1
        ELSE IF pat[i] = ")" THEN D[i - 1] - 1
        ELSE D[i - 1]
  IN  D

regex_compiles(pat) ==
  /\ \A i \in 0..Len(pat) : paren_depth(pat)[i] >= 0
  /\ paren_depth(pat)[Len(pat)] = 0

\* the pattern without its group delimiters
regex_atoms(pat) ==
  LET NotParen(c) == c \notin {"(", ")"} IN SelectSeq(pat, NotParen)

\* s.str.contains(pat) for a pattern that compiles
str_contains(s, pat) ==
  LET atoms == regex_atoms(pat)
  IN  \E i \in 1..(Len(s) - Len(atoms) + 1) :
         \A k \in 1..Len(atoms) :
            IF atoms[k] = "." THEN s[i + k - 1] # "\n"
            ELSE s[i + k - 1] = atoms[k]

\* a pattern that does not compile raises inside the try, and the bare
\* except returns None
get_disease_description(disease_name, faq) ==
  IF ~faq.loaded \/ disease_name = <<>> THEN None
  ELSE
    LET disease_clean == clean_name(disease_name)
        Test(r) == str_contains(r.question_clean, disease_clean)
        relevant_qa == IF faq.clean /\ regex_compiles(disease_clean)
                       THEN SelectSeq(faq.rows, Test) ELSE <<>>
    IN  IF relevant_qa = <<>> THEN None ELSE Some(relevant_qa[1].answer)

(***************************************************************************)
(* find_question_answer                                                    *)
(***************************************************************************)
faq_question_patterns ==
  <<
     << {<<"w", "h", "a", "t", " ">>}, {<<"a", "r", "e">>, <<"i", "s">>}, {<<" ">>}, {<<"t", "h", "e", " ">>, <<>>},
        {<<"s", "y", "m", "p", "t", "o", "m", "s">>, <<"s", "i", "g", "n", "s">>}, {<<" ", "o", "f">>} >>,
     << {<<"w", "h", "a", "t", " ">>}, {<<"a", "r", "e">>, <<"i", "s">>}, {<<" ">>}, {<<"t", "h", "e", " ">>, <<>>},
        {<<"c", "a", "u", "s", "e", "s">>, <<"r", "e", "a", "s", "o", "n">>}, {<<" ", "o", "f">>} >>,
     << {<<"w", "h", "a", "t", " ">>}, {<<"a", "r", "e">>, <<"i", "s">>}, {<<" ">>}, {<<"t", "h", "e", " ">>, <<>>},
        {<<"t", "r", "e", "a", "t", "m", "e", "n", "t">>, <<"r", "e", "m", "e", "d", "y">>}, {<<" ", "f", "o", "r">>} >>,
     << {<<"h", "o", "w", " ">>}, {<<"t", "o">>, <<"d", "o">>}, {<<" ">>},
        {<<"t", "r", "e", "a", "t">>, <<"h", "a", "n", "d", "l", "e">>, <<"m", "a", "n", "a", "g", "e">>} >>,
     << {<<"w", "h", "a", "t", " ">>}, {<<"i", "s">>, <<"a", "r", "e">>} >>
  >>

faq_question_regexes ==
  [k \in 1..Len(faq_question_patterns) |-> re_compile(faq_question_patterns[k])]

AsciiLetters == {LowerLetters[i] : i \in 1..26} \cup {UpperLetters[i] : i \in 1..26}

\* re.findall(r'[a-zA-Z]+', s): the maximal runs of ASCII letters, as
\* <<first, last>> index pairs
letter_runs(s) ==
  LET starts == {i \in 1..Len(s) :
                   s[i] \in AsciiLetters /\ (i = 1 \/ s[i - 1] \notin AsciiLetters)}
      last(i) == CHOOSE j \in i..Len(s) :
                   /\ \A m \in i..j : s[m] \in AsciiLetters
                   /\ (j = Len(s) \/ s[j + 1] \notin AsciiLetters)
  IN  {<<i, last(i)>> : i \in starts}

\* the score with disease_terms a set: a term repeated in the question is
\* counted once
faq_score_units_TermsOnce(question_clean, faq_question) ==
  LET is_symptom_question ==
        \E k \in 1..Len(faq_question_regexes) :
           re_search(faq_question_regexes[k], question_clean)
      question_words == word_set(question_clean)
      faq_words == word_set(faq_question)
      W == IF question_words = {} THEN 1 ELSE Cardinality(question_words)
      disease_terms == {SubSeq(question_clean, sp[1], sp[2]) :
                          sp \in {r \in letter_runs(question_clean) : r[2] - r[1] + 1 > 4}}
      found == {t \in disease_terms : contains(faq_question, t)}
      boost == IF is_symptom_question
                  /\ (contains(faq_question, <<"s", "y", "m", "p", "t", "o", "m">>)
                      \/ contains(faq_question, <<"s", "i", "g", "n">>))
               THEN 3 * W ELSE 0
      overlap == IF question_words # {} /\ faq_words # {}
                 THEN 10 * Cardinality(question_words \cap faq_words) ELSE 0
  IN  boost + overlap + 2 * W * Cardinality(found)

\* the score of one FAQ row, in units of 1 / (10 * W), W the number of
\* distinct words of the question (1 when it has none):
\* 0.3 + overlap / W + 0.2 per disease term found
faq_score_units(question_clean, faq_question) ==
  LET is_symptom_question ==
        \E k \in 1..Len(faq_question_regexes) :
           re_search(faq_question_regexes[k], question_clean)
      question_words == word_set(question_clean)
      faq_words == word_set(faq_question)
      W == IF question_words = {} THEN 1 ELSE Cardinality(question_words)
      \* disease_terms, one per occurrence in the question
      disease_terms == {sp \in letter_runs(question_clean) : sp[2] - sp[1] + 1 > 4}
      found == {sp \in disease_terms :
                  contains(faq_question, SubSeq(question_clean, sp[1], sp[2]))}
      boost == IF is_symptom_question
                  /\ (contains(faq_question, <<"s", "y", "m", "p", "t", "o", "m">>)
                      \/ contains(faq_question, <<"s", "i", "g", "n">>))
               THEN 3 * W ELSE 0
      overlap == IF question_words # {} /\ faq_words # {}
                 THEN 10 * Cardinality(question_words \cap faq_words) ELSE 0
  IN  boost + overlap + 2 * W * Cardinality(found)

\* the units 10 * W of the scores of one question
faq_score_scale(question_clean) ==
  LET question_words == word_set(question_clean)
  IN  10 * (IF question_words = {} THEN 1 ELSE Cardinality(question_words))

\* the loop without the early exit at a best score above 0.9
RECURSIVE faq_scan_NoEarlyExit(_, _, _, _)
faq_scan_NoEarlyExit(rows, i, best, question_clean) ==
  IF i > Len(rows) THEN best
  ELSE
    LET faq_question == str_lower(rows[i].question)
        score == faq_score_units(question_clean, faq_question)
    IN  IF faq_question = <<>> THEN faq_scan_NoEarlyExit(rows, i + 1, best, question_clean)
        ELSE IF score > best[2]
        THEN faq_scan_NoEarlyExit(rows, i + 1, <<i, score>>, question_clean)
        ELSE faq_scan_NoEarlyExit(rows, i + 1, best, question_clean)

\* the loop over the rows: <<best row index (0: none), best score>> after
\* rows i..Len(rows), starting from best = <<best_match, best_score>>
RECURSIVE faq_scan(_, _, _, _)
faq_scan(rows, i, best, question_clean) ==
  IF i > Len(rows) THEN best
  ELSE
    LET faq_question == str_lower(rows[i].question)
        score == faq_score_units(question_clean, faq_question)
        scale == faq_score_scale(question_clean)
    IN  IF faq_question = <<>> THEN faq_scan(rows, i + 1, best, question_clean)
        ELSE IF score > best[2]
        THEN IF 10 * score > 9 * scale
             THEN <<i, score>>
             ELSE faq_scan(rows, i + 1, <<i, score>>, question_clean)
        ELSE faq_scan(rows, i + 1, best, question_clean)

\* find_question_answer with the threshold test best_score >= threshold
find_question_answer_AtLeast(question, faq) ==
  IF ~faq.loaded \/ faq.rows = <<>> THEN None
  ELSE
    LET question_clean == str_strip(str_lower(question))
        best == faq_scan(faq.rows, 1, <<0, 0>>, question_clean)
    IN  IF 10 * best[2] >= 4 * faq_score_scale(question_clean)
        THEN Some(faq.rows[best[1]]) ELSE None

\* the FAQ row found (None: no row), threshold 0.4
find_question_answer(question, faq) ==
  IF ~faq.loaded \/ faq.rows = <<>> THEN None
  ELSE
    LET question_clean == str_strip(str_lower(question))
        best == faq_scan(faq.rows, 1, <<0, 0>>, question_clean)
    IN  IF 10 * best[2] > 4 * faq_score_scale(question_clean)
        THEN Some(faq.rows[best[1]]) ELSE None

(***************************************************************************)
(* process_user_input                                                      *)
(***************************************************************************)
disease_keywords ==
  << <<"s", "y", "m", "p", "t", "o", "m", "s">>, <<"s", "i", "g", "n", "s">>, <<"c", "a", "u", "s", "e", "s">>, <<"t", "r", "e", "a", "t", "m", "e", "n", "t">>, <<"o", "f">>, <<"f", "o", "r">> >>

\* the last index of the run of whitespace that starts at index i of s
whitespace_run_end(s, i) ==
  CHOOSE j \in i..Len(s) :
    /\ \A m \in i..j : s[m] \in Whitespace
    /\ (j = Len(s) \/ s[j + 1] \notin Whitespace)

\* r'(?:symptoms|signs|causes|treatment|of|for)\s+([^?]+)' matches at index
\* i of s with keyword kw: the keyword, one or more whitespace characters,
\* then one or more characters other than '?' (the last whitespace character
\* is given back to the group when nothing else follows)
keyword_matches_at(s, i, kw) ==
  /\ i + Len(kw) <= Len(s)
  /\ SubSeq(s, i, i + Len(kw) - 1) = kw
  /\ s[i + Len(kw)] \in Whitespace
  /\ LET e == whitespace_run_end(s, i + Len(kw))
     IN  \/ (e < Len(s) /\ s[e + 1] # "?")
         \/ e > i + Len(kw)

\* re.search(...).group(1).strip() for the leftmost match, None without one
disease_match(s) ==
  LET hits == {i \in 1..Len(s) :
                 \E k \in 1..Len(disease_keywords) :
                    keyword_matches_at(s, i, disease_keywords[k])}
  IN  IF hits = {} THEN None
      ELSE
        LET i  == CHOOSE h \in hits : \A g \in hits : h <= g
            kw == disease_keywords[CHOOSE k \in 1..Len(disease_keywords) :
                                     keyword_matches_at(s, i, disease_keywords[k])]
            e  == whitespace_run_end(s, i + Len(kw))
            stop == IF \E q \in (e + 1)..Len(s) : s[q] = "?"
                    THEN (CHOOSE q \in (e + 1)..Len(s) :
                            s[q] = "?" /\ \A m \in (e + 1)..(q - 1) : s[m] # "?") - 1
                    ELSE Len(s)
        IN  IF e < Len(s) /\ s[e + 1] # "?"
            THEN Some(str_strip(SubSeq(s, e + 1, stop)))
            ELSE Some(<<>>)

\* the response as initialized
new_response ==
  [type |-> "None", disease |-> None, confidence |-> confidence_0,
   symptoms |-> <<>>, precautions |-> <<>>, description |-> None,
   faq_question |-> None, faq_answer |-> None]

\* symptoms_list = [symptom.strip() for symptom in user_input.split(',')]
parse_symptoms_list(u) ==
  LET parts == str_split(u, ",") IN [k \in 1..Len(parts) |-> str_strip(parts[k])]

\* the question branch without the `return response` that ends the shortcut
question_response_NoReturn(u, precautions, symptoms, faq, augmented) ==
  LET lower == str_lower(u)
      match == disease_match(lower)
      potential_disease == IF match = None THEN <<>> ELSE match[1]
      shortcut == /\ match # None
                  /\ (contains(lower, <<"s", "y", "m", "p", "t", "o", "m">>) \/ contains(lower, <<"s", "i", "g", "n">>))
      found == IF shortcut
               THEN get_disease_symptoms(potential_disease, symptoms, augmented)
               ELSE <<>>
      faq_match == find_question_answer(u, faq)
      after_shortcut ==
        IF found # <<>>
        THEN [new_response EXCEPT
                !.type = "disease",
                !.disease = Some(potential_disease),
                !.confidence = confidence_095,
                !.symptoms = found,
                !.precautions = get_disease_precautions(potential_disease, precautions),
                !.description = get_disease_description(potential_disease, faq)]
        ELSE [new_response EXCEPT !.type = "question"]
  IN  IF faq_match # None
      THEN [after_shortcut EXCEPT
              !.faq_question = Some(faq_match[1].question),
              !.faq_answer = Some(faq_match[1].answer)]
      ELSE after_shortcut

\* the branch input_type == 'question'
question_response(u, precautions, symptoms, faq, augmented) ==
  LET lower == str_lower(u)
      match == disease_match(lower)
      potential_disease == IF match = None THEN <<>> ELSE match[1]
      shortcut == /\ match # None
                  /\ (contains(lower, <<"s", "y", "m", "p", "t", "o", "m">>) \/ contains(lower, <<"s", "i", "g", "n">>))
      found == IF shortcut
               THEN get_disease_symptoms(potential_disease, symptoms, augmented)
               ELSE <<>>
      faq_match == find_question_answer(u, faq)
  IN  IF found # <<>>
      THEN [new_response EXCEPT
              !.type = "disease",
              !.disease = Some(potential_disease),
              !.confidence = confidence_095,
              !.symptoms = found,
              !.precautions = get_disease_precautions(potential_disease, precautions),
              !.description = get_disease_description(potential_disease, faq)]
      ELSE IF faq_match # None
      THEN [new_response EXCEPT
              !.type = "question",
              !.faq_question = Some(faq_match[1].question),
              !.faq_answer = Some(faq_match[1].answer)]
      ELSE [new_response EXCEPT !.type = "question"]

\* the branch input_type == 'symptoms'
\* the symptoms path listing the cells set in the best-matching row
symptoms_response_BestRow(prediction_, precautions, symptoms, faq, augmented) ==
      IF prediction_ = None THEN [new_response EXCEPT !.type = "symptoms"]
      ELSE LET disease_name == prediction_[1].best_disease
               best_vector == prediction_[1].best_vector
               idx == FilterIndices([i \in 1..Len(best_vector) |-> best_vector[i] = 1])
           IN  [new_response EXCEPT
                  !.type = "symptoms",
                  !.disease = Some(disease_name),
                  !.confidence = prediction_[1].best_score,
                  !.symptoms = [k \in 1..Len(idx) |->
                                  str_replace(augmented.columns[idx[k]], "_", " ")],
                  !.precautions = get_disease_precautions(disease_name, precautions),
                  !.description = get_disease_description(disease_name, faq)]

symptoms_response(prediction_, precautions, symptoms, faq, augmented) ==
      IF prediction_ = None THEN [new_response EXCEPT !.type = "symptoms"]
      ELSE LET disease_name == prediction_[1].best_disease
           IN  [new_response EXCEPT
                  !.type = "symptoms",
                  !.disease = Some(disease_name),
                  !.confidence = prediction_[1].best_score,
                  !.symptoms = get_disease_symptoms(disease_name, symptoms, augmented),
                  !.precautions = get_disease_precautions(disease_name, precautions),
                  !.description = get_disease_description(disease_name, faq)]

\* the branch input_type == 'disease'
disease_response(u, precautions, symptoms, faq, augmented) ==
  [new_response EXCEPT
     !.type = "disease",
     !.disease = Some(u),
     !.confidence = confidence_095,
     !.symptoms = get_disease_symptoms(u, symptoms, augmented),
     !.precautions = get_disease_precautions(u, precautions),
     !.description = get_disease_description(u, faq)]

(***************************************************************************)
(* The reference data of the model: a matrix of at most MaxRows rows over  *)
(* five symptom columns, and one precaution, symptom-catalogue and FAQ     *)
(* table; every table may have failed to load.                             *)
(***************************************************************************)
SymptomColumns ==
  << <<"f", "e", "v", "e", "r">>, <<"c", "o", "u", "g", "h">>, <<"h", "e", "a", "d", "a", "c", "h", "e">>, <<"c", "h", "e", "s", "t", "_", "p", "a", "i", "n">>, <<"n", "a", "u", "s", "e", "a">> >>

DiseaseNames == { <<"f", "l", "u">>, <<"C", "o", "l", "d">> }

RowVectors ==
  { <<0, 0, 0, 0, 0>>, <<1, 0, 0, 0, 0>>, <<1, 0, 0, 1, 1>>, <<1, 1, 1, 1, 1>> }

MatrixRows ==
  {[diseases |-> d, diseases_clean |-> <<>>, vec |-> v] :
     d \in DiseaseNames, v \in RowVectors}

Matrices ==
  {[loaded |-> TRUE, clean |-> FALSE, columns |-> SymptomColumns, rows |-> rs] :
     rs \in UNION {[1..n -> MatrixRows] : n \in 0..MaxRows}}

PrecautionTable ==
  [loaded |-> TRUE, clean |-> FALSE,
   columns |-> <<"Disease", "Precaution_1", "Precaution_2", "Precaution_3", "Precaution_4">>,
   rows |-> << [Disease |-> <<"F", "l", "u">>, Disease_clean |-> <<>>,
                slots |-> << <<"r", "e", "s", "t">>, <<>>, <<" ", "d", "r", "i", "n", "k", " ", "f", "l", "u", "i", "d", "s">>, <<"n", "a", "n">> >>],
               [Disease |-> <<" ", "c", "o", "l", "d", " ">>, Disease_clean |-> <<>>,
                slots |-> << <<>>, <<"n", "a", "n">>, <<" ", "s", "t", "a", "y", " ", "w", "a", "r", "m", " ">>, <<"r", "e", "s", "t">> >>],
               [Disease |-> <<"C", "O", "L", "D">>, Disease_clean |-> <<>>,
                slots |-> << <<"s", "e", "e", " ", "a", " ", "d", "o", "c", "t", "o", "r">>, <<>>, <<>>, <<>> >>] >>]

SymptomTable ==
  [loaded |-> TRUE, clean |-> FALSE,
   columns |-> <<"Disease", "Symptom_1", "Symptom_2", "Symptom_3">>,
   rows |-> << [Disease |-> <<"C", "o", "l", "d">>, Disease_clean |-> <<>>,
                slots |-> << <<"s", "n", "e", "e", "z", "i", "n", "g">>, <<>>, <<" ", "c", "o", "u", "g", "h">> >>],
               [Disease |-> <<"m", "e", "a", "s", "l", "e", "s">>, Disease_clean |-> <<>>,
                slots |-> << <<"r", "a", "s", "h">>, <<"f", "e", "v", "e", "r">>, <<>> >>] >>]

FaqTable ==
  [loaded |-> TRUE, clean |-> FALSE,
   columns |-> <<"question", "answer">>,
   rows |-> << [question |-> <<"W", "h", "a", "t", " ", "i", "s", " ", "F", "l", "u", "?">>, question_clean |-> <<>>,
                answer |-> "Flu is a viral infection."],
               [question |-> <<>>, question_clean |-> <<>>,
                answer |-> "(no question)"],
               [question |-> <<"W", "h", "a", "t", " ", "a", "r", "e", " ", "t", "h", "e", " ", "s", "y", "m", "p", "t", "o", "m", "s", " ", "o", "f", " ", "c", "o", "l", "d", " ", "?">>, question_clean |-> <<>>,
                answer |-> "Sneezing and cough."],
               [question |-> <<"I", "s", " ", "F", "l", "u", " ", "(", "t", "y", "p", "e", " ", "A", ")", " ", "b", "a", "d">>, question_clean |-> <<>>,
                answer |-> "Type A flu can be severe."] >>]

\* the texts a user submits
UserInputs ==
  { <<>>,
    <<" ">>,
    <<"f", "e", "v", "e", "r", ",", " ", "c", "o", "u", "g", "h">>,
    <<"C", "h", "e", "s", "t", " ", "P", "a", "i", "n", " ", ",", " ", "n", "a", "u", "s", "e", "a", ",", " ", "f", "e", "v", "e", "r">>,
    <<"r", "a", "s", "h", ",", " ", "i", "t", "c", "h", "i", "n", "g">>,
    <<"f", "l", "u">>,
    <<"C", "O", "L", "D", " ">>,
    <<"m", "e", "a", "s", "l", "e", "s">>,
    <<"w", "h", "a", "t", " ", "a", "r", "e", " ", "t", "h", "e", " ", "s", "y", "m", "p", "t", "o", "m", "s", " ", "o", "f", " ", "f", "l", "u", "?">>,
    <<"w", "h", "a", "t", " ", "a", "r", "e", " ", "t", "h", "e", " ", "s", "i", "g", "n", "s", " ", "c", "o", "l", "d", "?">>,
    <<"w", "h", "a", "t", " ", "i", "s", " ", "f", "l", "u">>,
    <<"e", "x", "p", "l", "a", "i", "n", " ", "r", "a", "s", "h", " ", "p", "l", "e", "a", "s", "e">>,
    <<"F", "l", "u", " ", "(", "t", "y", "p", "e", " ", "A", ")">>,
    <<"f", ".", "u">>,
    <<"f", "l", "u", " ", "(", "a">> }

(***************************************************************************)
(* The Streamlit sessions.  Every session has its own st.session_state;    *)
(* profile_manager is one object of the process, and user_profiles.json    *)
(* one file, shared by the sessions.                                       *)
(***************************************************************************)
Sessions == {1, 2}

\* a session as initialize_session_state leaves it, before any form is
\* submitted, the profiles file holding no profile
NoSessions ==
  /\ chatbot_history = <<>>
  /\ profiles_file = <<>>
  /\ user_profiles = [s \in Sessions |-> <<>>]
  /\ current_profile = [s \in Sessions |-> None]
  /\ current_profile_id = [s \in Sessions |-> None]
  /\ session_pc = [s \in Sessions |-> "idle"]
  /\ last_save_time = 0
  /\ clock = 0

(***************************************************************************)
(* One query: the tables as render_chatbot_tab loads them, a user input,   *)
(* and process_user_input on it.                                           *)
(***************************************************************************)
Init ==
  /\ \E p \in {NoTable, PrecautionTable}, s \in {NoTable, SymptomTable},
        f \in {NoTable, FaqTable}, a \in {NoTable} \cup Matrices :
        LET d == loaded_datasets(p, s, f, a)
        IN  /\ precautions_df = d.precautions_df
            /\ symptoms_df = d.symptoms_df
            /\ faq_df = d.faq_df
            /\ augmented_df = d.augmented_df
  /\ user_input \in UserInputs
  /\ pc = "received"
  /\ input_type = "none"
  /\ upper_type = "none"
  /\ symptoms_list = <<>>
  /\ prediction = None
  /\ response = new_response
  /\ NoSessions

tables == <<precautions_df, symptoms_df, faq_df, augmented_df>>

\* if not user_input: return response
ProcessEmpty ==
  /\ pc = "received"
  /\ user_input = <<>>
  /\ response' = new_response
  /\ pc' = "assembled"
  /\ UNCHANGED <<tables, user_input, input_type, upper_type, symptoms_list, prediction>>
  /\ UNCHANGED session_vars

ProcessQuestion ==
  /\ pc = "received"
  /\ user_input # <<>>
  /\ classify_input_type(user_input) = "question"
  /\ input_type' = "question"
  /\ response' = question_response(user_input, precautions_df, symptoms_df,
                                   faq_df, augmented_df)
  /\ pc' = "assembled"
  /\ UNCHANGED <<tables, user_input, upper_type, symptoms_list, prediction>>
  /\ UNCHANGED session_vars

\* the symptoms path writing the query into the matrix as a further column
ProcessSymptoms_AddsQueryColumn ==
  /\ pc = "received"
  /\ user_input # <<>>
  /\ classify_input_type(user_input) = "symptoms"
  /\ input_type' = "symptoms"
  /\ symptoms_list' = parse_symptoms_list(user_input)
  /\ prediction' = predict_disease_from_symptoms(symptoms_list', augmented_df)
  /\ response' = symptoms_response(prediction', precautions_df, symptoms_df,
                                   faq_df, augmented_df)
  /\ augmented_df' = IF augmented_df.loaded
                     THEN [augmented_df EXCEPT !.columns = Append(@, "query")]
                     ELSE augmented_df
  /\ pc' = "assembled"
  /\ UNCHANGED <<precautions_df, symptoms_df, faq_df, user_input, upper_type>>
  /\ UNCHANGED session_vars

ProcessSymptoms ==
  /\ pc = "received"
  /\ user_input # <<>>
  /\ classify_input_type(user_input) = "symptoms"
  /\ input_type' = "symptoms"
  /\ symptoms_list' = parse_symptoms_list(user_input)
  /\ prediction' = predict_disease_from_symptoms(symptoms_list', augmented_df)
  /\ response' = symptoms_response(prediction', precautions_df, symptoms_df,
                                   faq_df, augmented_df)
  /\ pc' = "assembled"
  /\ UNCHANGED <<tables, user_input, upper_type>>
  /\ UNCHANGED session_vars

ProcessDisease ==
  /\ pc = "received"
  /\ user_input # <<>>
  /\ classify_input_type(user_input) = "disease"
  /\ input_type' = "disease"
  /\ response' = disease_response(user_input, precautions_df, symptoms_df,
                                  faq_df, augmented_df)
  /\ pc' = "assembled"
  /\ UNCHANGED <<tables, user_input, upper_type, symptoms_list, prediction>>
  /\ UNCHANGED session_vars

\* process_user_input: the early return and the three branches
Next == ProcessEmpty \/ ProcessQuestion \/ ProcessSymptoms \/ ProcessDisease

Spec == Init /\ [][Next]_vars

(***************************************************************************)
(* Inputs of the classifier: every concatenation of at most MaxChunks      *)
(* chunks of the vocabulary below.                                         *)
(***************************************************************************)
Chunks ==
  { <<"w", "h", "a", "t", " ">>,
    <<"i", "s", " ">>,
    <<"c", "a", "u", "s", "e", "s", " ">>,
    <<"w", "h", "y", " ">>,
    <<"d", "o", " ">>,
    <<"f", "l", "u">>,
    <<"c", "h", "e", "s", "t", " ", "p", "a", "i", "n">>,
    <<",", " ">>,
    <<"?">>,
    <<" ">>,
    <<"l", "o", "s", "s", " ", "o", "f", " ", "t", "a", "s", "t", "e">>,
    <<"e", "x", "p", "l", "a", "U+0131", "n">> }

RECURSIVE Flatten(_)
Flatten(cs) == IF cs = <<>> THEN <<>> ELSE Head(cs) \o Flatten(Tail(cs))

ClassifierInputs ==
  UNION {{Flatten(cs) : cs \in [1..n -> Chunks]} : n \in 0..MaxChunks}

(***************************************************************************)
(* The classifier applied to an input and to its upper-cased form.         *)
(***************************************************************************)
InitClassify ==
  /\ precautions_df = NoTable
  /\ symptoms_df = NoTable
  /\ faq_df = NoTable
  /\ augmented_df = NoTable
  /\ symptoms_list = <<>>
  /\ prediction = None
  /\ response = new_response
  /\ user_input \in ClassifierInputs
  /\ pc = "received"
  /\ input_type = "none"
  /\ upper_type = "none"
  /\ NoSessions

\* input_type = classify_input_type(user_input)
Classify ==
  /\ pc = "received"
  /\ input_type' = classify_input_type(user_input)
  /\ pc' = "classified"
  /\ UNCHANGED <<tables, user_input, upper_type, symptoms_list, prediction, response>>
  /\ UNCHANGED session_vars

\* classify_input_type(user_input.upper())
ClassifyUpper ==
  /\ pc = "classified"
  /\ upper_type' = classify_input_type(str_upper(user_input))
  /\ pc' = "compared"
  /\ UNCHANGED <<tables, user_input, input_type, symptoms_list, prediction, response>>
  /\ UNCHANGED session_vars

NextClassify == Classify \/ ClassifyUpper

SpecClassify == InitClassify /\ [][NextClassify]_vars

(***************************************************************************)
(* FAQ retrieval: a FAQ table of at most MaxFaqRows rows whose questions   *)
(* are drawn from FaqQuestionTexts, the answer of a row naming its         *)
(* position, and a question submitted through process_user_input.          *)
(***************************************************************************)
FaqQuestionTexts ==
  { <<>>,
    <<"f", "l", "u", " ", "i", "s", " ", "h", "e", "r", "e">>,
    <<"i", "s", " ", "f", "l", "u", " ", "b", "a", "d">>,
    <<"W", "h", "a", "t", " ", "i", "s", " ", "A", "s", "t", "h", "m", "a">>,
    <<"w", "h", "a", "t", " ", "i", "s", " ", "a", "s", "t", "h", "m", "a", "?">>,
    <<"w", "h", "a", "t", " ", "i", "s", " ", "a", "s", "t", "h", "m", "a", "?", " ", "s", "i", "g", "n", "s">> }

\* the answer of the row at position i
AnswerOf(i) == <<"answer", i>>

FaqTables ==
  {[loaded |-> TRUE, clean |-> FALSE, columns |-> <<"question", "answer">>,
    rows |-> [i \in 1..Len(qs) |->
                [question |-> qs[i], question_clean |-> <<>>, answer |-> AnswerOf(i)]]] :
     qs \in UNION {[1..n -> FaqQuestionTexts] : n \in 0..MaxFaqRows}}

\* the questions a user submits
FaqUserInputs ==
  { <<"i", "s", " ", "f", "l", "u", " ", "b", "a", "d", " ", "o", "r", " ", "n", "o", "t", "?">>,
    <<"w", "h", "a", "t", " ", "i", "s", " ", "a", "s", "t", "h", "m", "a", "?">>,
    <<" ", "W", "h", "a", "t", " ", "i", "s", " ", "a", "s", "t", "h", "m", "a">>,
    <<"w", "h", "a", "t", " ", "i", "s", " ", "a", "s", "t", "h", "m", "a", " ", "a", "s", "t", "h", "m", "a", "?">> }

InitFaq ==
  /\ \E p \in {NoTable, PrecautionTable}, f \in {NoTable} \cup FaqTables :
        LET d == loaded_datasets(p, NoTable, f, NoTable)
        IN  /\ precautions_df = d.precautions_df
            /\ symptoms_df = d.symptoms_df
            /\ faq_df = d.faq_df
            /\ augmented_df = d.augmented_df
  /\ user_input \in FaqUserInputs
  /\ pc = "received"
  /\ input_type = "none"
  /\ upper_type = "none"
  /\ symptoms_list = <<>>
  /\ prediction = None
  /\ response = new_response
  /\ NoSessions

NextFaq == ProcessQuestion

SpecFaq == InitFaq /\ [][NextFaq]_vars

(***************************************************************************)
(* The profile store (profile_manager.py).  A profile is a record of its   *)
(* id, its name, its predictions (the set of the diseases predicted) and   *)
(* last_updated (0 while the key is absent).  The other fields of the form *)
(* are copied as the name is; created_at and saved_at, which nothing       *)
(* reads, are not held.  save_profiles is the last call of                 *)
(* add_profile, auto_save_profile and save_profile_with_predictions: each  *)
(* handler is two consecutive steps of its session, the change of the list *)
(* and then the call of save_profiles, so that the clock and the other     *)
(* session may step in between; session_pc holds the call that is due.     *)
(***************************************************************************)
\* self._save_debounce_seconds = 2
save_debounce_seconds == 2

\* the most profiles one session adds
MaxProfiles == 2
\* the latest time.time()
MaxClock == 5

\* time.time() when the first session starts: later than
\* _last_save_time = 0 by the debounce window or more
StartTime == save_debounce_seconds

Digits == <<"0", "1", "2", "3", "4", "5", "6", "7", "8", "9">>

\* str(n), n >= 0
RECURSIVE decimal(_)
decimal(n) ==
  IF n < 10 THEN <<Digits[n + 1]>>
  ELSE Append(decimal(n \div 10), Digits[(n % 10) + 1])

\* f"{n:03d}": zeros on the left up to a width of 3
format_03d(n) ==
  LET d == decimal(n)
  IN  IF Len(d) >= 3 THEN d ELSE [k \in 1..(3 - Len(d)) |-> "0"] \o d

\* f"user_{n:03d}"
profile_id(n) == <<"u", "s", "e", "r", "_">> \o format_03d(n)

\* the names entered in the patient details form
PatientNames == {"Ann", "Bob"}

\* the profile_data of render_patient_details_page
ProfileData == {[name |-> n, predictions |-> {}] : n \in PatientNames}

\* st.session_state.predictions: none yet, or those of one disease
PredictionSets == {{}, {"Diabetes"}}

\* add_profile numbering the new profile by the length of the list
add_profile_NumberedByLength(profiles, profile_data) ==
  Append(profiles, [id |-> profile_id(Len(profiles)),
                    name |-> profile_data.name,
                    predictions |-> profile_data.predictions,
                    last_updated |-> 0])

\* add_profile, up to the call of save_profiles: the list with the new
\* profile, whose id is the last one's
add_profile(profiles, profile_data) ==
  Append(profiles, [id |-> profile_id(Len(profiles) + 1),
                    name |-> profile_data.name,
                    predictions |-> profile_data.predictions,
                    last_updated |-> 0])

\* the position of the first profile of the list with this id, 0 when none
index_of(profiles, id) ==
  LET S == {i \in 1..Len(profiles) : profiles[i].id = id}
  IN  IF S = {} THEN 0 ELSE CHOOSE i \in S : \A j \in S : i <= j

\* save_profiles writing whatever the time
save_profiles_NoDebounce(force, profiles, file, last, current_time) ==
  [file |-> profiles, last_save_time |-> current_time]

\* save_profiles: the file and _last_save_time after the call
save_profiles(force, profiles, file, last, current_time) ==
  IF ~force /\ current_time - last < save_debounce_seconds
  THEN [file |-> file, last_save_time |-> last]
  ELSE [file |-> profiles, last_save_time |-> current_time]

\* the query state while no query is made
NoQuery ==
  /\ precautions_df = NoTable
  /\ symptoms_df = NoTable
  /\ faq_df = NoTable
  /\ augmented_df = NoTable
  /\ user_input = <<>>
  /\ pc = "received"
  /\ input_type = "none"
  /\ upper_type = "none"
  /\ symptoms_list = <<>>
  /\ prediction = None
  /\ response = new_response

\* the sessions have run initialize_session_state: load_profiles has read
\* the same file, which holds no profile, into each of them
InitProfiles ==
  /\ NoQuery
  /\ chatbot_history = <<>>
  /\ profiles_file = <<>>
  /\ user_profiles = [s \in Sessions |-> profiles_file]
  /\ current_profile = [s \in Sessions |-> None]
  /\ current_profile_id = [s \in Sessions |-> None]
  /\ session_pc = [s \in Sessions |-> "idle"]
  /\ last_save_time = 0
  /\ clock = StartTime

\* time passes
Tick ==
  /\ clock < MaxClock
  /\ clock' = clock + 1
  /\ UNCHANGED <<query_vars, chatbot_history, profiles_file, user_profiles,
                 current_profile, current_profile_id, session_pc, last_save_time>>

\* the patient details form is submitted: add_profile up to its call of
\* save_profiles
AddProfile(s) ==
  /\ session_pc[s] = "idle"
  /\ Len(user_profiles[s]) < MaxProfiles
  /\ \E profile_data \in ProfileData :
        user_profiles' = [user_profiles EXCEPT ![s] = add_profile(@, profile_data)]
  /\ session_pc' = [session_pc EXCEPT ![s] = "add_save"]
  /\ UNCHANGED <<query_vars, chatbot_history, profiles_file, current_profile,
                 current_profile_id, last_save_time, clock>>

\* auto_save_profile up to its call of save_profiles; it returns False, all
\* unchanged, when the session has no current profile
AutoSaveProfile(s) ==
  /\ session_pc[s] = "idle"
  /\ current_profile[s] # None
  /\ current_profile_id[s] # None
  /\ \E predictions \in PredictionSets :
        LET i == index_of(user_profiles[s], current_profile_id[s][1])
            profile_data == [name |-> current_profile[s][1].name,
                             predictions |-> IF predictions # {} THEN predictions
                                             ELSE current_profile[s][1].predictions]
        IN  IF i # 0
            THEN /\ user_profiles' =
                      [user_profiles EXCEPT
                         ![s][i].name = current_profile[s][1].name,
                         ![s][i].predictions = IF predictions # {} THEN predictions ELSE @,
                         ![s][i].last_updated = clock]
                 /\ current_profile' =
                      [current_profile EXCEPT
                         ![s] = IF predictions # {}
                                THEN Some([@[1] EXCEPT !.predictions = predictions])
                                ELSE @]
                 /\ session_pc' = [session_pc EXCEPT ![s] = "auto_save"]
            ELSE /\ user_profiles' =
                      [user_profiles EXCEPT ![s] = add_profile(@, profile_data)]
                 /\ session_pc' = [session_pc EXCEPT ![s] = "auto_add_save"]
                 /\ UNCHANGED current_profile
  /\ UNCHANGED <<query_vars, chatbot_history, profiles_file, current_profile_id,
                 last_save_time, clock>>

\* save_profile_with_predictions up to its call of save_profiles; it
\* returns False, all unchanged, when no profile has the id
SaveProfileWithPredictions(s) ==
  /\ session_pc[s] = "idle"
  /\ \E i \in 1..Len(user_profiles[s]), predictions \in PredictionSets :
        /\ i = index_of(user_profiles[s], user_profiles[s][i].id)
        /\ user_profiles' = [user_profiles EXCEPT ![s][i].predictions = predictions]
  /\ session_pc' = [session_pc EXCEPT ![s] = "manual_save"]
  /\ UNCHANGED <<query_vars, chatbot_history, profiles_file, current_profile,
                 current_profile_id, last_save_time, clock>>

\* the call of save_profiles that ends the handler: forced but where
\* auto_save_profile updated a profile; after add_profile the form makes the
\* new profile the current one, and auto_save_profile keeps its id
SaveProfiles(s) ==
  /\ session_pc[s] # "idle"
  /\ LET saved == save_profiles(session_pc[s] # "auto_save", user_profiles[s],
                                profiles_file, last_save_time, clock)
     IN  /\ profiles_file' = saved.file
         /\ last_save_time' = saved.last_save_time
  /\ LET added == user_profiles[s][Len(user_profiles[s])]
     IN  CASE session_pc[s] = "add_save" ->
                /\ current_profile' =
                     [current_profile EXCEPT
                        ![s] = Some([name |-> added.name,
                                     predictions |-> added.predictions])]
                /\ current_profile_id' =
                     [current_profile_id EXCEPT ![s] = Some(added.id)]
           [] session_pc[s] = "auto_add_save" ->
                /\ current_profile_id' =
                     [current_profile_id EXCEPT ![s] = Some(added.id)]
                /\ UNCHANGED current_profile
           [] OTHER -> UNCHANGED <<current_profile, current_profile_id>>
  /\ session_pc' = [session_pc EXCEPT ![s] = "idle"]
  /\ UNCHANGED <<query_vars, chatbot_history, user_profiles, clock>>

\* one session and the clock
NextProfiles ==
  \/ Tick
  \/ AddProfile(1)
  \/ AutoSaveProfile(1)
  \/ SaveProfileWithPredictions(1)
  \/ SaveProfiles(1)

SpecProfiles == InitProfiles /\ [][NextProfiles]_vars

\* two sessions of one process, each adding profiles
NextTwoSessions ==
  \E s \in Sessions : AddProfile(s) \/ SaveProfiles(s)

SpecTwoSessions == InitProfiles /\ [][NextTwoSessions]_vars

(***************************************************************************)
(* The chat form of render_chatbot_tab: user_input is the text of the      *)
(* submission made last.                                                   *)
(***************************************************************************)
\* process_user_input as one function of the input and the tables
process_user_input(u, precautions, symptoms, faq, augmented) ==
  IF u = <<>> THEN new_response
  ELSE IF classify_input_type(u) = "question"
  THEN question_response(u, precautions, symptoms, faq, augmented)
  ELSE IF classify_input_type(u) = "symptoms"
  THEN symptoms_response(predict_disease_from_symptoms(parse_symptoms_list(u), augmented),
                         precautions, symptoms, faq, augmented)
  ELSE disease_response(u, precautions, symptoms, faq, augmented)

\* the texts submitted in the form
ChatInputs ==
  { <<>>, <<"f", "l", "u">>, <<"f", "e", "v", "e", "r", ",", " ", "c", "o", "u", "g", "h">>, <<"w", "h", "a", "t", " ", "i", "s", " ", "f", "l", "u">> }

\* the matrices of one row
ChatMatrices == {m \in Matrices : Len(m.rows) = 1}

\* the chat tab rendered for the first time: the datasets loaded, the
\* history initialised to [], nothing submitted yet
InitChat ==
  /\ \E p \in {NoTable, PrecautionTable}, s \in {NoTable, SymptomTable},
        f \in {NoTable, FaqTable}, a \in {NoTable} \cup ChatMatrices :
        LET d == loaded_datasets(p, s, f, a)
        IN  /\ precautions_df = d.precautions_df
            /\ symptoms_df = d.symptoms_df
            /\ faq_df = d.faq_df
            /\ augmented_df = d.augmented_df
  /\ user_input = <<>>
  /\ pc = "received"
  /\ input_type = "none"
  /\ upper_type = "none"
  /\ symptoms_list = <<>>
  /\ prediction = None
  /\ response = new_response
  /\ NoSessions

\* the submission appending to the history it finds
SubmitForm_KeepsHistory ==
  /\ \E u \in ChatInputs :
        /\ user_input' = u
        /\ chatbot_history' =
             IF u # <<>>
             THEN Append(Append(chatbot_history, [role |-> "user", content |-> u]),
                         [role |-> "bot", content |-> u,
                          response |-> process_user_input(u, precautions_df, symptoms_df,
                                                          faq_df, augmented_df)])
             ELSE chatbot_history
  /\ UNCHANGED <<tables, pc, input_type, upper_type, symptoms_list, prediction,
                 response, profile_vars>>

\* the form is submitted with the text u: `if submitted and user_input:`
\* empties the history and appends the user message and the bot entry
SubmitForm ==
  /\ \E u \in ChatInputs :
        /\ user_input' = u
        /\ chatbot_history' =
             IF u # <<>>
             THEN Append(Append(<<>>, [role |-> "user", content |-> u]),
                         [role |-> "bot", content |-> u,
                          response |-> process_user_input(u, precautions_df, symptoms_df,
                                                          faq_df, augmented_df)])
             ELSE chatbot_history
  /\ UNCHANGED <<tables, pc, input_type, upper_type, symptoms_list, prediction,
                 response, profile_vars>>

NextChat == SubmitForm

SpecChat == InitChat /\ [][NextChat]_vars

(***************************************************************************)
(* Properties of classify_input_type.                                      *)
(***************************************************************************)
Classified == pc # "received"

\* the input, lower-cased and trimmed, matches one of the question patterns
MatchesQuestionPattern(u) ==
  \E k \in 1..Len(question_patterns) :
     \E lit \in re_compile(question_patterns[k]) :
        contains(str_strip(str_lower(u)), lit)

\* C1: every input that contains a '?' is classified 'question'.
C1_QuestionMarkIsQuestion ==
  (Classified /\ has_char(user_input, "?")) => input_type = "question"

C1_Witness ==
  /\ Classified
  /\ has_char(user_input, "?")
  /\ has_char(user_input, ",")
  /\ word_count(user_input) <= 3
  /\ ~MatchesQuestionPattern(user_input)
  /\ user_input[Len(user_input)] # "?"
  /\ input_type = "question"

\* C2: the empty string and every whitespace-only input is classified
\* 'question'.
C2_BlankIsQuestion ==
  (Classified /\ str_strip(user_input) = <<>>) => input_type = "question"

\* C3 as stated: an input with a comma, at most 5 words and no question
\* pattern is classified 'symptoms'.
C3_CommaShortIsSymptoms ==
  (/\ Classified
   /\ has_char(user_input, ",")
   /\ word_count(user_input) <= 5
   /\ ~MatchesQuestionPattern(user_input)) => input_type = "symptoms"

\* C3 amended: an input with a comma, at most 5 words, no question pattern
\* and no '?' is classified 'symptoms'.
C3_CommaShortNoMarkIsSymptoms ==
  (/\ Classified
   /\ has_char(user_input, ",")
   /\ word_count(user_input) <= 5
   /\ ~MatchesQuestionPattern(user_input)
   /\ ~has_char(user_input, "?")) => input_type = "symptoms"

C3_Witness ==
  /\ Classified
  /\ has_char(user_input, ",")
  /\ word_count(user_input) = 5
  /\ ~MatchesQuestionPattern(user_input)
  /\ ~has_char(user_input, "?")
  /\ input_type = "symptoms"

IsAscii(u) == \A i \in 1..Len(u) : u[i] \in AsciiChars

\* C4 as stated: for every input s, classify(s) = classify(s.upper()).
C4_CaseInsensitive == pc = "compared" => input_type = upper_type

\* C4 amended: for every input s of ASCII characters,
\* classify(s) = classify(s.upper()).
C4_CaseInsensitiveAscii ==
  (pc = "compared" /\ IsAscii(user_input)) => input_type = upper_type

C4_Witness ==
  /\ pc = "compared"
  /\ IsAscii(user_input)
  /\ user_input # str_upper(user_input)
  /\ ~has_char(user_input, "?")
  /\ word_count(user_input) <= 3
  /\ input_type = "question"
  /\ upper_type = "question"

\* the decision list as C5 words it
C5_DecisionList(u) ==
  IF has_char(u, "?") \/ MatchesQuestionPattern(u) THEN "question"
  ELSE IF has_char(u, ",") /\ word_count(u) <= 5 THEN "symptoms"
  ELSE IF word_count(u) <= 3 THEN "disease"
  ELSE "question"

IsSymptomPhraseList(u) ==
  LET parts == str_split(u, ",")
  IN  /\ Len(parts) \in {2, 3}
      /\ \A k \in 1..Len(parts) : word_count(parts[k]) \in 1..3

\* C6: every comma-separated list of two or three symptom phrases of one to
\* three words each, without '?' and question pattern, is classified
\* 'symptoms'.
C6_PhraseListIsSymptoms ==
  (/\ Classified
   /\ IsSymptomPhraseList(user_input)
   /\ ~has_char(user_input, "?")
   /\ ~MatchesQuestionPattern(user_input)) => input_type = "symptoms"

Interrogatives ==
  { <<"w", "h", "a", "t">>, <<"h", "o", "w">>, <<"w", "h", "y">>,
    <<"w", "h", "e", "n">> }

\* the input begins with what, how, why or when, further words (of letters)
\* follow, and a '?' comes last if at all
BeginsWithInterrogative(u) ==
  /\ word_count(u) >= 2
  /\ \A i \in 1..Len(u) :
        \/ u[i] \in Whitespace \cup {LowerLetters[k] : k \in 1..26}
        \/ u[i] \in {UpperLetters[k] : k \in 1..26}
        \/ (u[i] = "?" /\ i = Len(u))
  /\ \E w \in Interrogatives :
        starts_with(str_strip(str_lower(u)), w \o <<" ">>)

\* C7: every input that begins with what, how, why or when followed by
\* further words is classified 'question'.
C7_InterrogativeIsQuestion ==
  (Classified /\ BeginsWithInterrogative(user_input)) => input_type = "question"

(***************************************************************************)
(* Properties of the symptom matcher and of the symptoms branch.           *)
(***************************************************************************)
\* the query went down the symptoms branch and the response is assembled
SymptomsAnswered == pc = "assembled" /\ input_type = "symptoms"

\* the columns of the matrix that name a symptom of the list (lower-cased,
\* trimmed, spaces replaced by underscores)
Recognized(list, columns) ==
  {c \in 1..Len(columns) :
     \E k \in 1..Len(list) :
        str_replace(str_strip(str_lower(list[k])), " ", "_") = columns[c]}

\* the number of recognized query symptoms present in a row
Overlap(vec, rec) == Cardinality({c \in rec : vec[c] = 1})

\* the number of symptoms present in a row
SetCells(vec) == Cardinality({c \in 1..Len(vec) : vec[c] = 1})

\* the cosine of row x with the query is less than that of row y: with
\* o the overlap and m the set cells, o(x)^2 / m(x) < o(y)^2 / m(y)
\* (a row without set cells has cosine 0)
CosLess(x, y, rec) ==
  LET mx == IF SetCells(x) = 0 THEN 1 ELSE SetCells(x)
      my == IF SetCells(y) = 0 THEN 1 ELSE SetCells(y)
  IN  Overlap(x, rec) * Overlap(x, rec) * my < Overlap(y, rec) * Overlap(y, rec) * mx

\* row i of the matrix has the maximum cosine and is the first such row
FirstBestRow(i, rows, rec) ==
  /\ \A j \in 1..Len(rows) : ~CosLess(rows[i].vec, rows[j].vec, rec)
  /\ \A j \in 1..(i - 1) : CosLess(rows[j].vec, rows[i].vec, rec)

\* C8: with at least one row and at least one recognized symptom,
\* predict_disease_from_symptoms returns the disease, the similarity and the
\* vector of the row of maximum cosine similarity with the query, the first
\* such row in table order.
C8_PredictsFirstBestRow ==
  LET rows == augmented_df.rows
      rec  == Recognized(symptoms_list, augmented_df.columns)
  IN  (SymptomsAnswered /\ augmented_df.loaded /\ rows # <<>> /\ rec # {}) =>
        /\ prediction # None
        /\ \E i \in 1..Len(rows) :
              /\ FirstBestRow(i, rows, rec)
              /\ prediction[1].best_disease = rows[i].diseases
              /\ prediction[1].best_vector = rows[i].vec
              /\ exact_value(prediction[1].best_score) =
                   Sq(Overlap(rows[i].vec, rec) * Overlap(rows[i].vec, rec),
                      Cardinality(rec)
                        * (IF SetCells(rows[i].vec) = 0 THEN 1 ELSE SetCells(rows[i].vec)))

\* two rows of different diseases share a positive maximum, and the first is
\* returned
C8_Witness ==
  LET rows == augmented_df.rows
      rec  == Recognized(symptoms_list, augmented_df.columns)
  IN  /\ SymptomsAnswered /\ augmented_df.loaded /\ Len(rows) = 2 /\ rec # {}
      /\ rows[1].diseases # rows[2].diseases
      /\ Overlap(rows[1].vec, rec) > 0
      /\ ~CosLess(rows[1].vec, rows[2].vec, rec)
      /\ ~CosLess(rows[2].vec, rows[1].vec, rec)
      /\ prediction # None
      /\ prediction[1].best_disease = rows[1].diseases

\* C9: when the matrix is unavailable or no input symptom is a column of the
\* matrix, the matcher returns no result and the response has disease None
\* and confidence 0.
C9_NoMatchNoResult ==
  (/\ SymptomsAnswered
   /\ (~augmented_df.loaded
       \/ Recognized(symptoms_list, augmented_df.columns) = {})) =>
     /\ prediction = None
     /\ response.disease = None
     /\ response.confidence = confidence_0

\* the pieces of u between its commas, trimmed, in order
CommaTokens(u) ==
  LET commas == {i \in 1..Len(u) : u[i] = ","}
      n == Cardinality(commas)
      \* the index of the k-th comma; 0 before the first, Len(u) + 1 after
      \* the last
      at(k) == IF k = 0 THEN 0
               ELSE IF k > n THEN Len(u) + 1
               ELSE CHOOSE i \in commas :
                      Cardinality({j \in commas : j < i}) = k - 1
  IN  [k \in 1..(n + 1) |-> str_strip(SubSeq(u, at(k - 1) + 1, at(k) - 1))]

\* a symptom-list input: commas, at most 5 words, no '?', no question pattern
IsSymptomListInput(u) ==
  /\ has_char(u, ",")
  /\ word_count(u) <= 5
  /\ ~has_char(u, "?")
  /\ ~MatchesQuestionPattern(u)

\* C10 as stated: for a symptom-list input the intent is 'symptoms', the
\* parsed list is the comma-split trimmed tokens in order, and the matcher
\* returns a row with the highest binary overlap with the query.
C10_ReturnsHighestOverlap ==
  LET rows == augmented_df.rows
      rec  == Recognized(CommaTokens(user_input), augmented_df.columns)
  IN  (pc = "assembled" /\ IsSymptomListInput(user_input)) =>
        /\ input_type = "symptoms"
        /\ symptoms_list = CommaTokens(user_input)
        /\ (augmented_df.loaded /\ rows # <<>>) =>
             /\ prediction # None
             /\ \A j \in 1..Len(rows) :
                   Overlap(rows[j].vec, rec) <= Overlap(prediction[1].best_vector, rec)

\* C10 amended: for a symptom-list input the intent is 'symptoms', the
\* parsed list is the comma-split trimmed tokens in order, and the matcher
\* returns the row with the highest cosine similarity with the query
\* (overlap squared over the number of symptoms set in the row), the first
\* such row in table order; the response names that row's disease.
C10_ReturnsHighestCosine ==
  LET rows == augmented_df.rows
      rec  == Recognized(CommaTokens(user_input), augmented_df.columns)
  IN  (pc = "assembled" /\ IsSymptomListInput(user_input)) =>
        /\ input_type = "symptoms"
        /\ symptoms_list = CommaTokens(user_input)
        /\ (augmented_df.loaded /\ rows # <<>>) =>
             /\ prediction # None
             /\ \E i \in 1..Len(rows) :
                   /\ \A j \in 1..Len(rows) : ~CosLess(rows[i].vec, rows[j].vec, rec)
                   /\ \A j \in 1..(i - 1) : CosLess(rows[j].vec, rows[i].vec, rec)
                   /\ prediction[1].best_vector = rows[i].vec
                   /\ response.disease = Some(rows[i].diseases)

\* the row returned has a smaller overlap with the query than another row,
\* whose cosine is smaller
C10_Witness ==
  LET rows == augmented_df.rows
      rec  == Recognized(CommaTokens(user_input), augmented_df.columns)
  IN  /\ pc = "assembled" /\ IsSymptomListInput(user_input)
      /\ augmented_df.loaded /\ prediction # None
      /\ \E j \in 1..Len(rows) :
            /\ Overlap(prediction[1].best_vector, rec) < Overlap(rows[j].vec, rec)
            /\ CosLess(rows[j].vec, prediction[1].best_vector, rec)

(***************************************************************************)
(* Properties of find_question_answer.                                     *)
(***************************************************************************)
\* process_user_input returned from the FAQ retrieval of the question branch
FaqRetrieved == pc = "assembled" /\ response.type = "question"

\* question_clean of the submitted question
QuestionClean == str_strip(str_lower(user_input))

\* the score of FAQ row i, in units of 1 / faq_score_scale; an empty
\* question scores nothing
RowScore(i) ==
  IF faq_df.rows[i].question = <<>> THEN 0
  ELSE faq_score_units(QuestionClean, str_lower(faq_df.rows[i].question))

\* the score of row i exceeds / equals tenths / 10
RowScoreAbove(i, tenths) == 10 * RowScore(i) > tenths * faq_score_scale(QuestionClean)
RowScoreIs(i, tenths) == 10 * RowScore(i) = tenths * faq_score_scale(QuestionClean)

FaqRows == 1..Len(faq_df.rows)

\* C11: find_question_answer returns a row exactly when the best score
\* strictly exceeds 0.4: a best score of exactly 0.4 gives None, a best score
\* above 0.4 gives a row, and an absent or empty FAQ table gives None.
C11_ThresholdIsStrict ==
  FaqRetrieved =>
    /\ (~faq_df.loaded \/ faq_df.rows = <<>>) =>
          (response.faq_question = None /\ response.faq_answer = None)
    /\ (\E i \in FaqRows : RowScoreAbove(i, 4)) <=> response.faq_question # None
    /\ ((\E i \in FaqRows : RowScoreIs(i, 4)) /\ (\A j \in FaqRows : ~RowScoreAbove(j, 4)))
          => response.faq_question = None

\* the best row scores exactly 0.4 and nothing is returned
C11_Witness ==
  /\ FaqRetrieved
  /\ \E i \in FaqRows : RowScoreIs(i, 4)
  /\ \A j \in FaqRows : ~RowScoreAbove(j, 4)
  /\ response.faq_question = None

\* row i is the first row in table order whose score exceeds 0.9
FirstAbove09(i) ==
  /\ RowScoreAbove(i, 9)
  /\ \A j \in 1..(i - 1) : ~RowScoreAbove(j, 9)

\* row i is the earliest row among those with the maximum score
EarliestMaximum(i) ==
  /\ \A j \in FaqRows : RowScore(j) <= RowScore(i)
  /\ \A j \in 1..(i - 1) : RowScore(j) < RowScore(i)

\* C12: the row find_question_answer returns is the first row in table order
\* whose score exceeds 0.9 when there is one (a later row may score higher),
\* and otherwise the earliest row among those with the maximum score.
C12_FirstAbove09ElseEarliestMaximum ==
  (FaqRetrieved /\ response.faq_answer # None) =>
    \E i \in FaqRows :
       /\ response.faq_answer = Some(faq_df.rows[i].answer)
       /\ response.faq_question = Some(faq_df.rows[i].question)
       /\ IF \E j \in FaqRows : RowScoreAbove(j, 9)
          THEN FirstAbove09(i)
          ELSE EarliestMaximum(i)

\* the scan stopped at a row above 0.9 although a later row scores higher
C12_Witness ==
  /\ FaqRetrieved
  /\ \E i \in FaqRows :
        /\ response.faq_answer = Some(faq_df.rows[i].answer)
        /\ FirstAbove09(i)
        /\ \E j \in (i + 1)..Len(faq_df.rows) : RowScore(j) > RowScore(i)

(***************************************************************************)
(* Properties of the aggregator lookups.                                   *)
(***************************************************************************)
\* process_user_input returned a response with a disease, whose symptoms,
\* precautions and description were looked up under that name
Resolved == pc = "assembled" /\ response.disease # None

ResolvedName == response.disease[1]

\* the positions of the rows of a preprocessed table whose normalized name
\* equals the normalized disease name
RowsNamed(df, key_clean, name) ==
  IF df.loaded /\ df.clean
  THEN {i \in 1..Len(df.rows) : df.rows[i][key_clean] = str_strip(str_lower(name))}
  ELSE {}

FirstOf(S) == CHOOSE i \in S : \A j \in S : i <= j

\* the names of the columns whose cell in vec is 1, underscores replaced by
\* spaces, in column order
ColumnsSetIn(vec) ==
  LET idx == FilterIndices([i \in 1..Len(vec) |-> vec[i] = 1])
  IN  [k \in 1..Len(idx) |-> str_replace(augmented_df.columns[idx[k]], "_", " ")]

\* what the symptom catalogue gives for the name
CatalogueSymptoms(name) ==
  LET S == RowsNamed(symptoms_df, "Disease_clean", name)
  IN  IF S = {} THEN <<>> ELSE kept_slots(symptoms_df.rows[FirstOf(S)].slots)

\* C13 as stated: when the matrix has a row of the normalized disease name,
\* the symptoms are exactly the columns set in that row (the catalogue is
\* not consulted).
C13_MatrixRowDecides ==
  LET S == RowsNamed(augmented_df, "diseases_clean", ResolvedName)
  IN  (Resolved /\ S # {}) =>
         response.symptoms = ColumnsSetIn(augmented_df.rows[FirstOf(S)].vec)

\* C13 amended: the columns set in the first matrix row of that name when it
\* has one and a cell of it is 1; in every other case what the catalogue
\* gives.
C13_MatrixRowWithSymptomsDecides ==
  LET S == RowsNamed(augmented_df, "diseases_clean", ResolvedName)
      from_matrix == IF S = {} THEN <<>>
                     ELSE ColumnsSetIn(augmented_df.rows[FirstOf(S)].vec)
  IN  Resolved =>
        response.symptoms = IF from_matrix # <<>> THEN from_matrix
                            ELSE CatalogueSymptoms(ResolvedName)

\* the matrix and the catalogue both know the disease, with different
\* symptoms, and the symptoms of the matrix row (one with an underscore in
\* its column name) are returned
C13_Witness ==
  LET S == RowsNamed(augmented_df, "diseases_clean", ResolvedName)
  IN  /\ Resolved
      /\ input_type = "disease"
      /\ S # {}
      /\ CatalogueSymptoms(ResolvedName) # <<>>
      /\ response.symptoms # CatalogueSymptoms(ResolvedName)
      /\ \E k \in 1..Len(response.symptoms) : has_char(response.symptoms[k], " ")
      /\ response.symptoms = ColumnsSetIn(augmented_df.rows[FirstOf(S)].vec)

\* the positions of the FAQ rows whose normalized question contains the
\* normalized disease name as a literal substring
RowsContaining(name) ==
  IF faq_df.loaded /\ faq_df.clean
  THEN {i \in 1..Len(faq_df.rows) :
          contains(faq_df.rows[i].question_clean, str_strip(str_lower(name)))}
  ELSE {}

\* C14: get_disease_description returns the answer of the first FAQ row, in
\* table order, whose normalized question contains the normalized disease
\* name as a literal substring, and None when no row contains it, for every
\* disease name (names with '.', '(' or ')' included).
C14_DescriptionOfFirstRowContaining ==
  LET S == RowsContaining(ResolvedName)
  IN  Resolved =>
        response.description =
          IF S = {} THEN None ELSE Some(faq_df.rows[FirstOf(S)].answer)

\* the names of the rows of a table, normalized (none when it is absent)
NamesIn(df, key) ==
  IF df.loaded THEN {str_strip(str_lower(df.rows[i][key])) : i \in 1..Len(df.rows)}
  ELSE {}

\* the name names no disease of any table: it is blank, or it is the
\* normalized name of no row of the matrix, the catalogue and the precaution
\* table and occurs in no FAQ question
NamesNoDisease(name) ==
  LET disease_clean == str_strip(str_lower(name))
  IN  \/ disease_clean = <<>>
      \/ /\ disease_clean \notin NamesIn(augmented_df, "diseases")
         /\ disease_clean \notin NamesIn(symptoms_df, "Disease")
         /\ disease_clean \notin NamesIn(precautions_df, "Disease")
         /\ \A q \in NamesIn(faq_df, "question") : ~contains(q, disease_clean)

\* C15: for a disease name that names no disease in any table (blank and
\* unknown names included) the lookups return an empty symptom list, an
\* empty precaution list and a None description.
C15_UnknownNameGivesNothing ==
  (Resolved /\ NamesNoDisease(ResolvedName)) =>
     /\ response.symptoms = <<>>
     /\ response.precautions = <<>>
     /\ response.description = None

(***************************************************************************)
(* Properties of process_user_input.                                       *)
(***************************************************************************)
Assembled == pc = "assembled"

SymptomsOfPrefix == <<"w", "h", "a", "t", " ", "a", "r", "e", " ", "t", "h", "e", " ", "s", "y", "m", "p", "t", "o", "m", "s", " ", "o", "f", " ">>

\* the input is 'what are the symptoms of D?' for a non-empty D without '?'
IsSymptomsOfQuestion(u) ==
  /\ Len(u) > Len(SymptomsOfPrefix) + 1
  /\ SubSeq(u, 1, Len(SymptomsOfPrefix)) = SymptomsOfPrefix
  /\ u[Len(u)] = "?"
  /\ \A i \in (Len(SymptomsOfPrefix) + 1)..(Len(u) - 1) : u[i] # "?"

\* the D of 'what are the symptoms of D?'
AskedDisease(u) == SubSeq(u, Len(SymptomsOfPrefix) + 1, Len(u) - 1)

\* the symptom list of the name in the tables: the columns set in the first
\* matrix row of that name, else what the catalogue gives
KnownSymptoms(name) ==
  LET S == RowsNamed(augmented_df, "diseases_clean", name)
      from_matrix == IF S = {} THEN <<>>
                     ELSE ColumnsSetIn(augmented_df.rows[FirstOf(S)].vec)
  IN  IF from_matrix # <<>> THEN from_matrix ELSE CatalogueSymptoms(name)

\* C16: for 'what are the symptoms of D?' with D a disease that has a
\* non-empty symptom list in the tables, the response has type 'disease',
\* disease D, confidence 0.95 and the symptoms of D, and no FAQ match.
C16_SymptomsOfDiseaseEscalates ==
  (/\ Assembled
   /\ IsSymptomsOfQuestion(user_input)
   /\ KnownSymptoms(AskedDisease(user_input)) # <<>>) =>
     /\ response.type = "disease"
     /\ response.disease = Some(AskedDisease(user_input))
     /\ response.confidence = confidence_095
     /\ response.symptoms = KnownSymptoms(AskedDisease(user_input))
     /\ response.faq_question = None
     /\ response.faq_answer = None

\* the precautions of the name in the precaution table
KnownPrecautions(name) ==
  LET S == RowsNamed(precautions_df, "Disease_clean", name)
  IN  IF S = {} THEN <<>> ELSE kept_slots(precautions_df.rows[FirstOf(S)].slots)

\* C17: on the disease path the disease is the raw input and the confidence
\* is 0.95 whether or not the name is known; symptoms and precautions are
\* those of the lower-cased, trimmed name; and a name that names no disease
\* gets empty symptoms, empty precautions and a None description.
C17_DiseasePath ==
  (Assembled /\ input_type = "disease") =>
     /\ response.type = "disease"
     /\ response.disease = Some(user_input)
     /\ response.confidence = confidence_095
     /\ response.symptoms = KnownSymptoms(user_input)
     /\ response.precautions = KnownPrecautions(user_input)
     /\ NamesNoDisease(user_input) =>
           /\ response.symptoms = <<>>
           /\ response.precautions = <<>>
           /\ response.description = None

\* C18: every response returned has an intent (type) among question,
\* symptoms and disease; for the empty string the intent is 'question' and
\* every optional field is None or empty.
C18_IntentIsSet ==
  Assembled =>
     /\ response.type \in {"question", "symptoms", "disease"}
     /\ user_input = <<>> =>
           /\ response.type = "question"
           /\ response.disease = None
           /\ response.symptoms = <<>>
           /\ response.precautions = <<>>
           /\ response.description = None
           /\ response.faq_question = None
           /\ response.faq_answer = None

\* C19: faq_question and faq_answer are both None or both set, and when
\* they are set the response is that of the FAQ path: type 'question',
\* disease None, confidence 0, no symptoms, no precautions, no description.
C19_FaqFieldsOnlyOnFaqPath ==
  Assembled =>
     /\ (response.faq_question = None) <=> (response.faq_answer = None)
     /\ response.faq_question # None =>
           /\ response.type = "question"
           /\ response.disease = None
           /\ response.confidence = confidence_0
           /\ response.symptoms = <<>>
           /\ response.precautions = <<>>
           /\ response.description = None

\* a symptom question whose shortcut found nothing and that the FAQ answers
C19_Witness ==
  /\ Assembled
  /\ contains(str_lower(user_input), <<"s", "y", "m", "p", "t", "o", "m">>)
  /\ disease_match(str_lower(user_input)) # None
  /\ augmented_df.loaded /\ augmented_df.clean /\ augmented_df.rows # <<>>
  /\ response.faq_question # None
  /\ response.faq_answer # None
  /\ response.type = "question"

\* the float64 the score stands for lies in [0, 1]
InUnitInterval(x) ==
  /\ x.sq_num >= 0
  /\ \/ x.sq_num < x.sq_den
     \/ (x.sq_num = x.sq_den /\ x.rounding <= 0)

\* C20: the confidence of every response lies in [0, 1]; it is 0 when no
\* disease is resolved, 0.95 when the type is 'disease', and the cosine
\* similarity of the matched row when the type is 'symptoms' and a disease
\* is resolved.
C20_ConfidenceInUnitInterval ==
  Assembled =>
     /\ InUnitInterval(response.confidence)
     /\ response.disease = None => response.confidence = confidence_0
     /\ response.type = "disease" => response.confidence = confidence_095
     /\ (response.type = "symptoms" /\ response.disease # None) =>
          LET rec == Recognized(symptoms_list, augmented_df.columns)
              vec == prediction[1].best_vector
          IN  exact_value(response.confidence) =
                IF rec = {} \/ SetCells(vec) = 0 THEN Sq(0, 1)
                ELSE Sq(Overlap(vec, rec) * Overlap(vec, rec),
                        Cardinality(rec) * SetCells(vec))

\* C21: process_user_input returns whichever tables are absent; a field
\* that only an absent table can fill keeps its default; with all four
\* tables absent a question has no FAQ match, a symptom list no disease, and
\* a disease name no symptoms, precautions or description.
C21_AbsentTablesGiveDefaults ==
  Assembled =>
     /\ ~faq_df.loaded =>
           /\ response.faq_question = None
           /\ response.faq_answer = None
           /\ response.description = None
     /\ ~precautions_df.loaded => response.precautions = <<>>
     /\ (~augmented_df.loaded /\ ~symptoms_df.loaded) => response.symptoms = <<>>
     /\ (~augmented_df.loaded /\ input_type = "symptoms") =>
           /\ response.disease = None
           /\ response.confidence = confidence_0
     /\ (~faq_df.loaded /\ ~precautions_df.loaded
           /\ ~augmented_df.loaded /\ ~symptoms_df.loaded) =>
           response \in {new_response,
                         [new_response EXCEPT !.type = "question"],
                         [new_response EXCEPT !.type = "symptoms"],
                         [new_response EXCEPT !.type = "disease",
                                              !.disease = Some(user_input),
                                              !.confidence = confidence_095]}

\* a disease name was looked up with all four tables absent
C21_Witness ==
  /\ Assembled
  /\ ~faq_df.loaded /\ ~precautions_df.loaded
  /\ ~augmented_df.loaded /\ ~symptoms_df.loaded
  /\ input_type = "disease"
  /\ response.disease = Some(user_input)
  /\ response.precautions = <<>>

C23_LoadedTablesArePreprocessed ==
  /\ precautions_df.loaded => precautions_df.clean
  /\ symptoms_df.loaded => symptoms_df.clean
  /\ faq_df.loaded => faq_df.clean
  /\ augmented_df.loaded => augmented_df.clean

\* the question contains 'what is' or 'what are', or 'how to' or 'how do'
\* followed by 'treat', 'handle' or 'manage': what the five patterns
\* of find_question_answer match between them
C24_MatchesPattern(q) ==
  \/ contains(q, <<"w", "h", "a", "t", " ", "i", "s">>)
  \/ contains(q, <<"w", "h", "a", "t", " ", "a", "r", "e">>)
  \/ \E verb \in {<<"t", "r", "e", "a", "t">>, <<"h", "a", "n", "d", "l", "e">>, <<"m", "a", "n", "a", "g", "e">>} :
        \/ contains(q, <<"h", "o", "w", " ", "t", "o", " ">> \o verb)
        \/ contains(q, <<"h", "o", "w", " ", "d", "o", " ">> \o verb)

\* the positions, first to last character, of the alphabetic tokens of q
\* longer than 4 characters; a token that occurs twice has two positions
C24_LongTokens(q) == {sp \in letter_runs(q) : sp[2] - sp[1] >= 4}

\* the three parts of the score of row i, each in units of
\* 1 / faq_score_scale
C24_PatternPart(i) ==
  LET fq == str_lower(faq_df.rows[i].question)
  IN  IF C24_MatchesPattern(QuestionClean)
         /\ (contains(fq, <<"s", "y", "m", "p", "t", "o", "m">>) \/ contains(fq, <<"s", "i", "g", "n">>))
      THEN 3 * (faq_score_scale(QuestionClean) \div 10) ELSE 0

C24_OverlapPart(i) ==
  LET input_words == word_set(QuestionClean)
      row_words == word_set(str_lower(faq_df.rows[i].question))
  IN  IF input_words = {} THEN 0
      ELSE (Cardinality({w \in input_words : w \in row_words})
              * faq_score_scale(QuestionClean)) \div Cardinality(input_words)

C24_TokenPart(i) ==
  LET fq == str_lower(faq_df.rows[i].question)
  IN  2 * (faq_score_scale(QuestionClean) \div 10)
        * Cardinality({sp \in C24_LongTokens(QuestionClean) :
                         contains(fq, SubSeq(QuestionClean, sp[1], sp[2]))})

\* C24: the score of a non-empty FAQ row is 0.3 when the question matches a
\* pattern and the row's question contains 'symptom' or 'sign', plus the
\* share of the distinct input words found among the row's words (0 when
\* the input has no words), plus 0.2 for every occurrence in the input of an
\* alphabetic token longer than 4 characters that is a substring of the
\* row's question; the sum is not capped.
C24_ScoreIsSumOfThreeParts ==
  FaqRetrieved =>
    \A i \in FaqRows :
       faq_df.rows[i].question # <<>> =>
          RowScore(i) = C24_PatternPart(i) + C24_OverlapPart(i) + C24_TokenPart(i)

\* the question repeats a long token, and the returned row holds it: both
\* occurrences count and the score of the row exceeds 1
C24_Witness ==
  /\ FaqRetrieved
  /\ \E i \in FaqRows :
        /\ response.faq_answer = Some(faq_df.rows[i].answer)
        /\ RowScore(i) > faq_score_scale(QuestionClean)
        /\ \E s1, s2 \in C24_LongTokens(QuestionClean) :
              /\ s1 # s2
              /\ SubSeq(QuestionClean, s1[1], s1[2]) = SubSeq(QuestionClean, s2[1], s2[2])
              /\ contains(str_lower(faq_df.rows[i].question),
                          SubSeq(QuestionClean, s1[1], s1[2]))

\* the precaution rows whose name, lower-cased and trimmed, is that of name
C25_RowsOf(name) ==
  {i \in 1..Len(precautions_df.rows) :
     str_strip(str_lower(precautions_df.rows[i].Disease)) = str_strip(str_lower(name))}

\* the trimmed slots of a row that are neither empty nor 'nan', in slot order
C25_SlotsKept(row) ==
  LET trimmed == [k \in 1..Len(row.slots) |-> str_strip(row.slots[k])]
      Kept(v) == v # <<>> /\ v # <<"n", "a", "n">>
  IN  SelectSeq(trimmed, Kept)

\* C25: the precautions of a response are at most 4, none of them empty, and
\* they are the slots Precaution_1 to Precaution_4 of the first precaution
\* row whose normalized name is the normalized disease name, in slot order,
\* without the missing, empty and 'nan' slots.
C25_PrecautionsOfFirstRow ==
  Resolved =>
    /\ Len(response.precautions) <= 4
    /\ \A k \in 1..Len(response.precautions) : response.precautions[k] # <<>>
    /\ (precautions_df.loaded /\ C25_RowsOf(ResolvedName) # {}) =>
          response.precautions =
             C25_SlotsKept(precautions_df.rows[FirstOf(C25_RowsOf(ResolvedName))])

\* the disease has two precaution rows, and the first of them has an empty
\* slot before a kept one or a 'nan' slot
C25_Witness ==
  /\ Resolved
  /\ precautions_df.loaded
  /\ Cardinality(C25_RowsOf(ResolvedName)) > 1
  /\ response.precautions # <<>>
  /\ \E r \in {precautions_df.rows[FirstOf(C25_RowsOf(ResolvedName))]} :
        /\ Len(response.precautions) < Len(r.slots)
        /\ \E k \in 1..Len(r.slots) : str_strip(r.slots[k]) = <<>>
        /\ \E k \in 1..Len(response.precautions) :
              response.precautions[k] # str_strip(r.slots[k])

\* process_user_input took the symptoms path and resolved a disease
ResolvedFromSymptoms == Resolved /\ input_type = "symptoms"

\* no two rows of the matrix have the same normalized name
UniqueNames ==
  \A i, j \in 1..Len(augmented_df.rows) :
     augmented_df.rows[i].diseases_clean = augmented_df.rows[j].diseases_clean => i = j

\* C27 as stated: on the symptoms path the symptoms are the cells set in the
\* first matrix row of the resolved disease's name, and those of the
\* best-matching row when names are unique.
C27_FirstMatrixRowDecides ==
  LET S == RowsNamed(augmented_df, "diseases_clean", ResolvedName)
  IN  (ResolvedFromSymptoms /\ S # {}) =>
         /\ response.symptoms = ColumnsSetIn(augmented_df.rows[FirstOf(S)].vec)
         /\ UniqueNames => response.symptoms = ColumnsSetIn(prediction[1].best_vector)

\* C27 amended: on the symptoms path the symptoms are the cells set in the
\* first matrix row of the resolved disease's name, whichever row matched
\* best, when that row has a cell set; when it has none they are what the
\* catalogue gives; with unique names they are the cells set in the
\* best-matching row when it has one.
C27_FirstMatrixRowWithSymptomsDecides ==
  LET S == RowsNamed(augmented_df, "diseases_clean", ResolvedName)
      first == ColumnsSetIn(augmented_df.rows[FirstOf(S)].vec)
      best == ColumnsSetIn(prediction[1].best_vector)
  IN  (ResolvedFromSymptoms /\ S # {}) =>
         /\ first # <<>> => response.symptoms = first
         /\ first = <<>> => response.symptoms = CatalogueSymptoms(ResolvedName)
         /\ (UniqueNames /\ best # <<>>) => response.symptoms = best

\* two rows have the resolved name, the second matched best, and the
\* symptoms are those of the first
C27_Witness ==
  LET S == RowsNamed(augmented_df, "diseases_clean", ResolvedName)
  IN  /\ ResolvedFromSymptoms
      /\ Cardinality(S) = 2
      /\ prediction[1].best_vector # augmented_df.rows[FirstOf(S)].vec
      /\ response.symptoms # <<>>
      /\ response.symptoms = ColumnsSetIn(augmented_df.rows[FirstOf(S)].vec)
      /\ response.symptoms # ColumnsSetIn(prediction[1].best_vector)

(***************************************************************************)
(* Properties of the chat form.                                            *)
(***************************************************************************)
\* the history holds exactly the exchange of the text: the user message,
\* then the bot entry with the response to it
C26_IsExchangeOf(history, text) ==
  /\ Len(history) = 2
  /\ history[1] = [role |-> "user", content |-> text]
  /\ history[2].role = "bot"
  /\ history[2].content = text
  /\ history[2].response = process_user_input(text, precautions_df, symptoms_df,
                                              faq_df, augmented_df)

\* C26: chatbot_history is always empty or the two entries of one exchange,
\* the user message followed by the bot response; after a non-empty
\* submission it is the exchange of that submission, whatever it held
\* before, and an empty submission leaves it as it was.
C26_HistoryIsLastExchange ==
  /\ [](\/ chatbot_history = <<>>
        \/ \E text \in ChatInputs \ {<<>>} : C26_IsExchangeOf(chatbot_history, text))
  /\ [][IF user_input' # <<>>
        THEN C26_IsExchangeOf(chatbot_history', user_input')
        ELSE chatbot_history' = chatbot_history]_vars

\* an empty submission was made after a non-empty one, whose exchange the
\* history still holds
C26_Witness ==
  /\ user_input = <<>>
  /\ Len(chatbot_history) = 2
  /\ chatbot_history[2].response.type # "None"

(***************************************************************************)
(* Properties of the profile store.                                        *)
(***************************************************************************)
\* 'user_' followed by i with zeros on the left up to three digits
C28_IdOf(i) ==
  <<"u", "s", "e", "r", "_">> \o (IF i < 10 THEN <<"0", "0", Digits[i + 1]>>
               ELSE IF i < 100 THEN <<"0", Digits[(i \div 10) + 1], Digits[(i % 10) + 1]>>
               ELSE decimal(i))

\* C28: in a session that started from an empty store the i-th profile has
\* the id 'user_' followed by i on three digits, the ids are pairwise
\* distinct, and the list only grows: no step removes a profile or changes
\* the id of one.
C28_IdsNumberTheProfiles ==
  /\ [](\A s \in Sessions :
          /\ \A i \in 1..Len(user_profiles[s]) : user_profiles[s][i].id = C28_IdOf(i)
          /\ \A i, j \in 1..Len(user_profiles[s]) :
                user_profiles[s][i].id = user_profiles[s][j].id => i = j)
  /\ [][\A s \in Sessions :
          /\ Len(user_profiles'[s]) >= Len(user_profiles[s])
          /\ \A i \in 1..Len(user_profiles[s]) :
                user_profiles'[s][i].id = user_profiles[s][i].id]_vars

\* two profiles were added, one was updated by auto_save_profile and one
\* given predictions, and the list was written to the file
C28_Witness ==
  /\ Len(user_profiles[1]) = 2
  /\ session_pc[1] = "idle"
  /\ user_profiles[1][1].last_updated # 0
  /\ user_profiles[1][2].predictions # {}
  /\ profiles_file = user_profiles[1]

\* C29: once two sessions that loaded the same file have each added a
\* profile, the file holds the new profiles of both, under pairwise distinct
\* ids.
C29_BothProfilesReachTheFile ==
  ((\A s \in Sessions : session_pc[s] = "idle" /\ user_profiles[s] # <<>>)) =>
     /\ Len(profiles_file) = Len(user_profiles[1]) + Len(user_profiles[2])
     /\ \A s \in Sessions : \A i \in 1..Len(user_profiles[s]) :
           \E k \in 1..Len(profiles_file) : profiles_file[k].name = user_profiles[s][i].name
     /\ \A i, j \in 1..Len(profiles_file) :
           profiles_file[i].id = profiles_file[j].id => i = j

\* the step is the call of save_profiles by session s
C30_SaveCall(s) == session_pc[s] # "idle" /\ session_pc'[s] = "idle"

\* C30: a call of save_profiles that is forced, or made 2 seconds or more
\* after the last write, writes the session's list and sets the last-save
\* time; a call not forced within 2 seconds of the last write leaves the
\* file and the last-save time as they were; and no other step writes the
\* file, so that a change not written waits for a later call.
C30_SaveIsDebounced ==
  [][/\ \A s \in Sessions :
          C30_SaveCall(s) =>
             IF session_pc[s] # "auto_save" \/ clock - last_save_time >= 2
             THEN profiles_file' = user_profiles[s] /\ last_save_time' = clock
             ELSE profiles_file' = profiles_file /\ last_save_time' = last_save_time
     /\ (\A s \in Sessions : ~C30_SaveCall(s)) =>
           (profiles_file' = profiles_file /\ last_save_time' = last_save_time)]_vars

\* auto_save_profile changed a profile within 2 seconds of the last write;
\* the window is over, no call is due, and the file does not hold the change
C30_Witness ==
  /\ session_pc[1] = "idle"
  /\ profiles_file # user_profiles[1]
  /\ clock - last_save_time >= 2
  /\ \E i \in 1..Len(user_profiles[1]) :
        /\ user_profiles[1][i].last_updated >= last_save_time
        /\ user_profiles[1][i].last_updated - last_save_time < 2
        /\ (i > Len(profiles_file)
            \/ profiles_file[i].last_updated # user_profiles[1][i].last_updated)

====
